---- MODULE Spec2Model ----
(***************************************************************************)
(* Azure Firewall Analyzer: the rule ordering engine (RuleProcessor).      *)
(*                                                                         *)
(* A firewall policy is a list of rule collection groups, each a list of   *)
(* rule collections, each a list of rules.  processFirewallPolicy turns a  *)
(* child policy and an optional parent policy into processed groups whose  *)
(* rules carry a processingOrder.  The model composes the two policies     *)
(* (one group, collection or rule at a time), then applies                 *)
(* processFirewallPolicy to them as the code computes it, and states the   *)
(* properties of the result.                                               *)
(***************************************************************************)
EXTENDS Integers, Sequences, FiniteSets, TLC

VARIABLES policy, parentPolicy, processedGroups, pc, ruleAnalysis, jsonContent, report

vars == <<policy, parentPolicy, processedGroups, pc, ruleAnalysis, jsonContent, report>>

(***************************************************************************)
(* Bounds of the model                                                     *)
(***************************************************************************)

\* Largest number of groups + collections + rules of the two composed policies.
MaxNodes == 6

\* Largest number of rules of an analyzed policy.
MaxAnalyzedRules == 3

\* Largest number of resources after the policy + collections + rules of a
\* template.
MaxTemplateNodes == 3

\* The priorities a composed group can take (lower = evaluated earlier).
GroupPriorities == {100, 200}

\* The priorities a composed collection can take.
CollectionPriorities == {100, 200}

(***************************************************************************)
(* The policy model (firewall.types)                                       *)
(***************************************************************************)

RuleType == {"NatRule", "NetworkRule", "ApplicationRule"}

\* A ruleType value outside the RuleType union (an unknown/future kind).
UnknownRuleType == "FutureRule"

RuleCategory == <<"DNAT", "Network", "Application">>

\* parentPolicy when processFirewallPolicy is called without a parent.
NoPolicy == [undefined |-> TRUE]

EmptyPolicy == [ruleCollectionGroups |-> <<>>]

PolicyGroups(p) == IF p = NoPolicy THEN <<>> ELSE p.ruleCollectionGroups

RECURSIVE SumSeq(_)
SumSeq(s) == IF s = <<>> THEN 0 ELSE Head(s) + SumSeq(Tail(s))

CollectionNodes(c) == 1 + Len(c.rules)

GroupNodes(g) ==
    1 + SumSeq([i \in 1..Len(g.ruleCollections) |-> CollectionNodes(g.ruleCollections[i])])

GroupsNodes(gs) == SumSeq([i \in 1..Len(gs) |-> GroupNodes(gs[i])])

\* Number of groups, collections and rules of the composed input.
InputNodes == GroupsNodes(PolicyGroups(policy)) + GroupsNodes(PolicyGroups(parentPolicy))

(***************************************************************************)
(* Array.prototype.sort: a stable sort by a comparator.  x is placed       *)
(* before the first element that compares greater than it.                 *)
(***************************************************************************)

\* The comparator without the parent-first rule: numeric priority alone.
CompareGroupsPriorityOnly(a, b) == a.group.priority - b.group.priority

\* The comparator with the priorities subtracted the wrong way round.
CompareGroupsDescending(a, b) ==
    IF a.isParent /\ ~b.isParent THEN -1
    ELSE IF ~a.isParent /\ b.isParent THEN 1
    ELSE b.group.priority - a.group.priority

\* allGroups.sort comparator of processFirewallPolicy.
CompareGroups(a, b) ==
    IF a.isParent /\ ~b.isParent THEN -1
    ELSE IF ~a.isParent /\ b.isParent THEN 1
    ELSE a.group.priority - b.group.priority

RECURSIVE InsertGroup(_, _)
InsertGroup(sorted, x) ==
    IF sorted = <<>> THEN <<x>>
    ELSE IF CompareGroups(Head(sorted), x) > 0 THEN <<x>> \o sorted
    ELSE <<Head(sorted)>> \o InsertGroup(Tail(sorted), x)

RECURSIVE SortGroups(_)
SortGroups(s) ==
    IF s = <<>> THEN <<>>
    ELSE InsertGroup(SortGroups(SubSeq(s, 1, Len(s) - 1)), s[Len(s)])

\* [...collections].sort((a, b) => a.priority - b.priority)
CompareCollections(a, b) == a.priority - b.priority

\* An insertion that puts a collection before those of equal priority.
RECURSIVE InsertCollectionBeforeEqual(_, _)
InsertCollectionBeforeEqual(sorted, x) ==
    IF sorted = <<>> THEN <<x>>
    ELSE IF CompareCollections(Head(sorted), x) >= 0 THEN <<x>> \o sorted
    ELSE <<Head(sorted)>> \o InsertCollectionBeforeEqual(Tail(sorted), x)

RECURSIVE InsertCollection(_, _)
InsertCollection(sorted, x) ==
    IF sorted = <<>> THEN <<x>>
    ELSE IF CompareCollections(Head(sorted), x) > 0 THEN <<x>> \o sorted
    ELSE <<Head(sorted)>> \o InsertCollection(Tail(sorted), x)

RECURSIVE SortCollections(_)
SortCollections(s) ==
    IF s = <<>> THEN <<>>
    ELSE InsertCollection(SortCollections(SubSeq(s, 1, Len(s) - 1)), s[Len(s)])

\* allRules.sort((a, b) => a.processingOrder - b.processingOrder)
CompareRules(a, b) == a.processingOrder - b.processingOrder

RECURSIVE InsertRule(_, _)
InsertRule(sorted, x) ==
    IF sorted = <<>> THEN <<x>>
    ELSE IF CompareRules(Head(sorted), x) > 0 THEN <<x>> \o sorted
    ELSE <<Head(sorted)>> \o InsertRule(Tail(sorted), x)

RECURSIVE SortRules(_)
SortRules(s) ==
    IF s = <<>> THEN <<>>
    ELSE InsertRule(SortRules(SubSeq(s, 1, Len(s) - 1)), s[Len(s)])

(***************************************************************************)
(* Sequence helpers (Array.filter, Array.some, push(...spread))            *)
(***************************************************************************)

RECURSIVE FilterRulesOfType(_, _)
FilterRulesOfType(rules, t) ==
    IF rules = <<>> THEN <<>>
    ELSE IF Head(rules).ruleType = t
         THEN <<Head(rules)>> \o FilterRulesOfType(Tail(rules), t)
         ELSE FilterRulesOfType(Tail(rules), t)

SomeRuleOfType(collection, t) ==
    \E i \in 1..Len(collection.rules) : collection.rules[i].ruleType = t

\* The bucket filled without the test for a rule of the kind.
FilterCollectionsAll(collections, t) == collections

RECURSIVE FilterCollectionsWith(_, _)
FilterCollectionsWith(collections, t) ==
    IF collections = <<>> THEN <<>>
    ELSE IF SomeRuleOfType(Head(collections), t)
         THEN <<Head(collections)>> \o FilterCollectionsWith(Tail(collections), t)
         ELSE FilterCollectionsWith(Tail(collections), t)

RECURSIVE Flatten(_)
Flatten(ss) == IF ss = <<>> THEN <<>> ELSE Head(ss) \o Flatten(Tail(ss))

(***************************************************************************)
(* RuleProcessor                                                           *)
(***************************************************************************)

\* The switch of the rule filter: the ruleType a category keeps.
RuleTypeOfCategory(ruleCategory) ==
    CASE ruleCategory = "DNAT" -> "NatRule"
      [] ruleCategory = "Network" -> "NetworkRule"
      [] ruleCategory = "Application" -> "ApplicationRule"
      [] OTHER -> "none"

\* `rule_${groupName}_${collection.name}_${rule.name}_${index}`
RuleId(groupName, collectionName, ruleName, index) ==
    "rule_" \o groupName \o "_" \o collectionName \o "_" \o ruleName \o "_" \o ToString(index)

\* The properties copied for every rule, whatever its kind.
CommonProperties ==
    {"sourceAddresses", "destinationAddresses", "sourceIpGroups", "destinationIpGroups"}

\* The type-specific properties copied for a rule of the kind.
TypeSpecificProperties(ruleType) ==
    CASE ruleType = "ApplicationRule" ->
            {"protocols", "fqdnTags", "webCategories", "targetFqdns", "targetUrls",
             "terminateTLS", "httpHeadersToInsert"}
      [] ruleType = "NetworkRule" ->
            {"ipProtocols", "destinationPorts", "destinationFqdns"}
      [] ruleType = "NatRule" ->
            {"translatedAddress", "translatedPort", "ipProtocols", "destinationPorts"}
      [] OTHER -> {}

\* The properties the processed rule takes over from the rule; a property the
\* rule does not have is undefined on the processed rule as well.
CopyRuleFields(rule) ==
    [f \in (TypeSpecificProperties(rule.ruleType) \cup CommonProperties) \cap DOMAIN rule
        |-> rule[f]]

\* The processed rule with the group's priority copied as collectionPriority.
ProcessRuleGroupPriority(rule, index, collection, ruleCategory, groupName, groupPriority, isParentPolicy, order) ==
    [ruleType |-> rule.ruleType,
     name |-> rule.name,
     id |-> RuleId(groupName, collection.name, rule.name, index),
     collectionName |-> collection.name,
     collectionGroupName |-> groupName,
     processingOrder |-> order,
     ruleCategory |-> ruleCategory,
     groupPriority |-> groupPriority,
     collectionPriority |-> groupPriority,
     isParentPolicy |-> isParentPolicy] @@ CopyRuleFields(rule)

\* The processed rule built for relevantRules[index] (index counts from 0).
ProcessRule(rule, index, collection, ruleCategory, groupName, groupPriority, isParentPolicy, order) ==
    [ruleType |-> rule.ruleType,
     name |-> rule.name,
     id |-> RuleId(groupName, collection.name, rule.name, index),
     collectionName |-> collection.name,
     collectionGroupName |-> groupName,
     processingOrder |-> order,
     ruleCategory |-> ruleCategory,
     groupPriority |-> groupPriority,
     collectionPriority |-> collection.priority,
     isParentPolicy |-> isParentPolicy] @@ CopyRuleFields(rule)

\* The body of sortedCollections.map: one processed collection, its rules
\* numbered currentOrder, currentOrder + 1, ...
ProcessCollection(collection, ruleCategory, groupName, groupPriority, isParentPolicy, currentOrder) ==
    LET relevantRules == FilterRulesOfType(collection.rules, RuleTypeOfCategory(ruleCategory))
    IN [name |-> collection.name,
        priority |-> collection.priority,
        rules |-> collection.rules,
        id |-> "collection_" \o groupName \o "_" \o collection.name,
        groupName |-> groupName,
        groupPriority |-> groupPriority,
        ruleCategory |-> ruleCategory,
        processedRules |->
            [i \in 1..Len(relevantRules) |->
                ProcessRule(relevantRules[i], i - 1, collection, ruleCategory,
                            groupName, groupPriority, isParentPolicy,
                            currentOrder + (i - 1))]]

\* sortedCollections.map with the currentOrder++ it threads through.
RECURSIVE MapCollections(_, _, _, _, _, _)
MapCollections(sortedCollections, ruleCategory, groupName, groupPriority, isParentPolicy, currentOrder) ==
    IF sortedCollections = <<>> THEN <<>>
    ELSE LET processed == ProcessCollection(Head(sortedCollections), ruleCategory,
                               groupName, groupPriority, isParentPolicy, currentOrder)
         IN <<processed>> \o
            MapCollections(Tail(sortedCollections), ruleCategory, groupName,
                           groupPriority, isParentPolicy,
                           currentOrder + Len(processed.processedRules))

processRuleCollectionsByType(collections, ruleCategory, groupName, groupPriority, isParentPolicy, startingOrder) ==
    MapCollections(SortCollections(collections), ruleCategory, groupName,
                   groupPriority, isParentPolicy, startingOrder)

\* All processed rules of a list of processed collections, in emission order.
RulesOfCollections(collections) ==
    Flatten([i \in 1..Len(collections) |-> collections[i].processedRules])

RECURSIVE MaxOrderFrom(_, _)
MaxOrderFrom(rules, maxOrder) ==
    IF rules = <<>> THEN maxOrder
    ELSE MaxOrderFrom(Tail(rules),
                      IF Head(rules).processingOrder > maxOrder
                      THEN Head(rules).processingOrder ELSE maxOrder)

getMaxProcessingOrderFromCollections(collections) ==
    MaxOrderFrom(RulesOfCollections(collections), 0)

getMaxProcessingOrder(group) ==
    MaxOrderFrom(RulesOfCollections(group.processedCollections), 0)

processRuleCollectionGroup(group, isParentPolicy, startingOrder) ==
    LET dnatCollections == FilterCollectionsWith(group.ruleCollections, "NatRule")
        networkCollections == FilterCollectionsWith(group.ruleCollections, "NetworkRule")
        applicationCollections ==
            FilterCollectionsWith(group.ruleCollections, "ApplicationRule")
        processedDnatCollections ==
            processRuleCollectionsByType(dnatCollections, "DNAT", group.name,
                                         group.priority, isParentPolicy, startingOrder)
        networkOrder == getMaxProcessingOrderFromCollections(processedDnatCollections) + 1
        processedNetworkCollections ==
            processRuleCollectionsByType(networkCollections, "Network", group.name,
                                         group.priority, isParentPolicy, networkOrder)
        applicationOrder ==
            getMaxProcessingOrderFromCollections(processedNetworkCollections) + 1
        processedApplicationCollections ==
            processRuleCollectionsByType(applicationCollections, "Application", group.name,
                                         group.priority, isParentPolicy, applicationOrder)
    IN [id |-> "group_" \o group.name,
        name |-> group.name,
        priority |-> group.priority,
        ruleCollections |-> group.ruleCollections,
        processedCollections |->
            processedDnatCollections \o processedNetworkCollections
                \o processedApplicationCollections,
        isParentPolicy |-> isParentPolicy]

\* The combined list before the sort: parent groups, then child groups.
AllGroups(p, parent) ==
    [i \in 1..Len(PolicyGroups(parent)) |->
        [group |-> PolicyGroups(parent)[i], isParent |-> TRUE]]
    \o [i \in 1..Len(PolicyGroups(p)) |->
        [group |-> PolicyGroups(p)[i], isParent |-> FALSE]]

\* allGroups.map with the globalProcessingOrder it updates after each group.
RECURSIVE MapGroups(_, _)
MapGroups(allGroups, globalProcessingOrder) ==
    IF allGroups = <<>> THEN <<>>
    ELSE LET processedGroup ==
                 processRuleCollectionGroup(Head(allGroups).group,
                                            Head(allGroups).isParent,
                                            globalProcessingOrder)
         IN <<processedGroup>> \o
            MapGroups(Tail(allGroups), getMaxProcessingOrder(processedGroup) + 1)

\* processFirewallPolicy with the global counter started at 0.
processFirewallPolicyFromZero(p, parent) == MapGroups(SortGroups(AllGroups(p, parent)), 0)

processFirewallPolicy(p, parent) == MapGroups(SortGroups(AllGroups(p, parent)), 1)

\* Rules of the output in emission order: groups, then processedCollections,
\* then processedRules.
EmittedRules(groups) ==
    Flatten([i \in 1..Len(groups) |-> RulesOfCollections(groups[i].processedCollections)])

getAllRulesInProcessingOrder(groups) == SortRules(EmittedRules(groups))

getRulesByCategory(groups, category) ==
    SelectSeq(getAllRulesInProcessingOrder(groups), LAMBDA r : r.ruleCategory = category)

\* The rulesByCategory counters of getProcessingStatistics.
rulesByCategory(groups) ==
    [c \in {"DNAT", "Network", "Application"} |->
        Cardinality({i \in 1..Len(EmittedRules(groups)) :
                        EmittedRules(groups)[i].ruleCategory = c})]

\* The processing_gap warnings of validateProcessingOrder, as the indices i
\* of the sorted list whose rule does not follow rule i - 1 by exactly 1.
ProcessingGaps(groups) ==
    LET allRules == getAllRulesInProcessingOrder(groups)
    IN {i \in 2..Len(allRules) :
            allRules[i].processingOrder # allRules[i - 1].processingOrder + 1}

\* The null findRuleById returns for an id no rule carries.
\* The arrays of the input after the call. ruleCollectionGroups and each
\* ruleCollections array are read with forEach only; the groups are sorted
\* inside the new array allGroups, the collections inside the copy
\* [...collections], and the rules are picked with filter.
ruleCollectionsSortedInPlace(ruleCollections) == SortCollections(ruleCollections)

ruleCollectionsAfterProcessing(ruleCollections) == ruleCollections

ruleCollectionGroupsAfterProcessing(groups) ==
    [i \in 1..Len(groups) |->
        [groups[i] EXCEPT !.ruleCollections = ruleCollectionsAfterProcessing(@)]]

PolicyAfterProcessing(p) ==
    IF p = NoPolicy THEN NoPolicy
    ELSE [p EXCEPT !.ruleCollectionGroups = ruleCollectionGroupsAfterProcessing(@)]

NoRule == [null |-> TRUE]

\* The first rule with the id, in the order of the loops over the groups and
\* their processed collections.
findRuleById(groups, ruleId) ==
    LET rules == EmittedRules(groups)
        found == {i \in 1..Len(rules) : rules[i].id = ruleId}
    IN IF found = {} THEN NoRule
       ELSE rules[CHOOSE i \in found : \A j \in found : i <= j]

\* groupPriorities after the push of the group's name under its priority: a
\* Map keeps its keys in the order of their first insertion.
PushGroupName(groupPriorities, priority, name) ==
    IF \E i \in 1..Len(groupPriorities) : groupPriorities[i].priority = priority
    THEN [i \in 1..Len(groupPriorities) |->
            IF groupPriorities[i].priority = priority
            THEN [groupPriorities[i] EXCEPT !.groupNames = Append(@, name)]
            ELSE groupPriorities[i]]
    ELSE Append(groupPriorities, [priority |-> priority, groupNames |-> <<name>>])

\* The groupPriorities Map of validateProcessingOrder after groups.forEach.
RECURSIVE GroupNamesByPriority(_)
GroupNamesByPriority(groups) ==
    IF groups = <<>> THEN <<>>
    ELSE PushGroupName(GroupNamesByPriority(SubSeq(groups, 1, Len(groups) - 1)),
                       groups[Len(groups)].priority, groups[Len(groups)].name)

\* The processing_gap warnings, in the order of the loop.
GapWarnings(allRules) ==
    Flatten([i \in 1..Len(allRules) |->
        IF i >= 2 /\ allRules[i].processingOrder # allRules[i - 1].processingOrder + 1
        THEN <<[type |-> "processing_gap", before |-> allRules[i - 1].name,
                after |-> allRules[i].name]>>
        ELSE <<>>])

\* The duplicate_priority warnings for the entries with at least minimum names.
DuplicatePriorityWarnings(groups, minimum) ==
    LET entries == SelectSeq(GroupNamesByPriority(groups),
                             LAMBDA e : Len(e.groupNames) >= minimum)
    IN [i \in 1..Len(entries) |->
            [type |-> "duplicate_priority", priority |-> entries[i].priority,
             groupNames |-> entries[i].groupNames]]

\* validateProcessingOrder warning of every priority a group has.
validateProcessingOrderEveryPriority(groups) ==
    GapWarnings(getAllRulesInProcessingOrder(groups)) \o DuplicatePriorityWarnings(groups, 1)

\* The warnings of validateProcessingOrder; in place of its message a warning
\* keeps the values the message is made of.
validateProcessingOrder(groups) ==
    GapWarnings(getAllRulesInProcessingOrder(groups)) \o DuplicatePriorityWarnings(groups, 2)

\* The value of Math.min / Math.max over the priorities of a list, Infinity
\* and -Infinity over none.
PriorityRange(priorities) ==
    IF priorities = {} THEN [min |-> "Infinity", max |-> "-Infinity"]
    ELSE [min |-> CHOOSE x \in priorities : \A y \in priorities : x <= y,
          max |-> CHOOSE x \in priorities : \A y \in priorities : x >= y]

\* A count of the declared rules of the processed collections.
CountDeclaredRules(collections) ==
    SumSeq([i \in 1..Len(collections) |-> Len(collections[i].rules)])

\* stats.totalRules += collection.processedRules.length
CountProcessedRules(collections) ==
    SumSeq([i \in 1..Len(collections) |-> Len(collections[i].processedRules)])

\* stats.rulesByCategory[rule.ruleCategory]++ over every processed rule
CountCategory(groups, category) ==
    Len(SelectSeq(EmittedRules(groups), LAMBDA rule : rule.ruleCategory = category))

getProcessingStatistics(groups) ==
    LET collections == Flatten([i \in 1..Len(groups) |-> groups[i].processedCollections])
    IN [totalGroups |-> Len(groups),
        totalCollections |-> Len(collections),
        totalRules |-> CountProcessedRules(collections),
        parentPolicyGroups |-> Len(SelectSeq(groups, LAMBDA group : group.isParentPolicy)),
        childPolicyGroups |-> Len(SelectSeq(groups, LAMBDA group : ~group.isParentPolicy)),
        rulesByCategory |-> [DNAT |-> CountCategory(groups, "DNAT"),
                             Network |-> CountCategory(groups, "Network"),
                             Application |-> CountCategory(groups, "Application")],
        priorityRanges |->
            [groups |-> PriorityRange({groups[i].priority : i \in 1..Len(groups)}),
             collections |->
                 PriorityRange({collections[i].priority : i \in 1..Len(collections)})]]

(***************************************************************************)
(* Strings, as JavaScript treats them                                      *)
(***************************************************************************)

UpperCaseLetters == "ABCDEFGHIJKLMNOPQRSTUVWXYZ"

LowerCaseLetters == "abcdefghijklmnopqrstuvwxyz"

\* The characters of the inputs in the order of their UTF-16 code units.
CodeUnitOrder ==
    " *-.0123456789ABCDEFGHIJKLMNOPQRSTUVWXYZ_abcdefghijklmnopqrstuvwxyz"

CharAt(s, i) == SubSeq(s, i, i)

\* String.prototype.indexOf for one character, counting from 1; 0 if absent.
IndexOfChar(s, c) ==
    LET found == {i \in 1..Len(s) : CharAt(s, i) = c}
    IN IF found = {} THEN 0 ELSE CHOOSE i \in found : \A j \in found : i <= j

\* The lower-case letter of every upper-case letter.
LowerCaseOf ==
    [c \in {CharAt(UpperCaseLetters, i) : i \in 1..Len(UpperCaseLetters)} |->
        CharAt(LowerCaseLetters, IndexOfChar(UpperCaseLetters, c))]

LowerCaseChar(c) == IF c \in DOMAIN LowerCaseOf THEN LowerCaseOf[c] ELSE c

\* The place of every character in CodeUnitOrder.
CodeUnitRank ==
    [c \in {CharAt(CodeUnitOrder, i) : i \in 1..Len(CodeUnitOrder)} |->
        IndexOfChar(CodeUnitOrder, c)]

\* String.prototype.toLowerCase
RECURSIVE toLowerCase(_)
toLowerCase(s) ==
    IF s = "" THEN ""
    ELSE LowerCaseChar(CharAt(s, 1)) \o toLowerCase(SubSeq(s, 2, Len(s)))

RECURSIVE TrimStart(_)
TrimStart(s) ==
    IF s # "" /\ CharAt(s, 1) = " " THEN TrimStart(SubSeq(s, 2, Len(s))) ELSE s

RECURSIVE TrimEnd(_)
TrimEnd(s) ==
    IF s # "" /\ CharAt(s, Len(s)) = " " THEN TrimEnd(SubSeq(s, 1, Len(s) - 1)) ELSE s

\* String.prototype.trim
trim(s) == TrimEnd(TrimStart(s))

\* String.prototype.includes
includes(s, searchString) ==
    \E i \in 1..(Len(s) - Len(searchString) + 1) :
        SubSeq(s, i, i + Len(searchString) - 1) = searchString

\* a < b in the order Array.prototype.sort uses without a comparator: by
\* code units, a proper prefix first.
RECURSIVE StringLess(_, _)
StringLess(a, b) ==
    IF b = "" THEN FALSE
    ELSE IF a = "" THEN TRUE
    ELSE IF CharAt(a, 1) = CharAt(b, 1)
         THEN StringLess(SubSeq(a, 2, Len(a)), SubSeq(b, 2, Len(b)))
         ELSE CodeUnitRank[CharAt(a, 1)] < CodeUnitRank[CharAt(b, 1)]

RECURSIVE InsertString(_, _)
InsertString(sorted, x) ==
    IF sorted = <<>> THEN <<x>>
    ELSE IF StringLess(x, Head(sorted)) THEN <<x>> \o sorted
    ELSE <<Head(sorted)>> \o InsertString(Tail(sorted), x)

\* Array.prototype.sort() of an array of strings.
RECURSIVE SortStrings(_)
SortStrings(s) ==
    IF s = <<>> THEN <<>>
    ELSE InsertString(SortStrings(SubSeq(s, 1, Len(s) - 1)), s[Len(s)])

\* JSON.stringify of a string: quoted, with quote and backslash escaped.
RECURSIVE EscapeJson(_)
EscapeJson(s) ==
    IF s = "" THEN ""
    ELSE (IF CharAt(s, 1) = "\"" \/ CharAt(s, 1) = "\\" THEN "\\" ELSE "")
         \o CharAt(s, 1) \o EscapeJson(SubSeq(s, 2, Len(s)))

JsonString(s) == "\"" \o EscapeJson(s) \o "\""

RECURSIVE JsonItems(_)
JsonItems(arr) ==
    IF arr = <<>> THEN ""
    ELSE IF Len(arr) = 1 THEN JsonString(arr[1])
    ELSE JsonString(Head(arr)) \o "," \o JsonItems(Tail(arr))

\* JSON.stringify of an array of strings.
JsonArray(arr) == "[" \o JsonItems(arr) \o "]"

(***************************************************************************)
(* RuleAnalyzer                                                            *)
(***************************************************************************)

\* rule.property || []: the property of the processed rule, [] if undefined.
OrEmpty(rule, property) ==
    IF property \in DOMAIN rule THEN rule[property] ELSE <<>>

LowerCaseTrim(s) == trim(toLowerCase(s))

\* normalizeAddresses without the sort.
normalizeAddressesUnsorted(addresses) ==
    [i \in 1..Len(addresses) |-> LowerCaseTrim(addresses[i])]

normalizeAddresses(addresses) ==
    SortStrings([i \in 1..Len(addresses) |-> LowerCaseTrim(addresses[i])])

normalizePorts(ports) == SortStrings([i \in 1..Len(ports) |-> trim(ports[i])])

normalizeProtocols(protocols) ==
    SortStrings([i \in 1..Len(protocols) |-> LowerCaseTrim(protocols[i])])

normalizeFqdns(fqdns) ==
    SortStrings([i \in 1..Len(fqdns) |-> LowerCaseTrim(fqdns[i])])

generateRuleFingerprint(rule) ==
    [sourceAddresses |-> normalizeAddresses(OrEmpty(rule, "sourceAddresses")),
     destinationAddresses |-> normalizeAddresses(OrEmpty(rule, "destinationAddresses")),
     destinationPorts |-> normalizePorts(OrEmpty(rule, "destinationPorts")),
     ipProtocols |-> normalizeProtocols(OrEmpty(rule, "ipProtocols")),
     targetFqdns |-> normalizeFqdns(OrEmpty(rule, "targetFqdns")),
     ruleType |-> rule.ruleType]

\* The key without the rule kind.
serializeFingerprintWithoutKind(fingerprint) ==
    "{\"sa\":" \o JsonArray(fingerprint.sourceAddresses)
    \o ",\"da\":" \o JsonArray(fingerprint.destinationAddresses)
    \o ",\"dp\":" \o JsonArray(fingerprint.destinationPorts)
    \o ",\"ip\":" \o JsonArray(fingerprint.ipProtocols)
    \o ",\"fq\":" \o JsonArray(fingerprint.targetFqdns)
    \o "}"

\* JSON.stringify({sa, da, dp, ip, fq, rt})
serializeFingerprint(fingerprint) ==
    "{\"sa\":" \o JsonArray(fingerprint.sourceAddresses)
    \o ",\"da\":" \o JsonArray(fingerprint.destinationAddresses)
    \o ",\"dp\":" \o JsonArray(fingerprint.destinationPorts)
    \o ",\"ip\":" \o JsonArray(fingerprint.ipProtocols)
    \o ",\"fq\":" \o JsonArray(fingerprint.targetFqdns)
    \o ",\"rt\":" \o JsonString(fingerprint.ruleType)
    \o "}"

\* The key of the fingerprint Map a rule is filed under.
FingerprintKey(rule) == serializeFingerprint(generateRuleFingerprint(rule))

\* fingerprintMap after the push of rule under key: a Map keeps its keys in
\* the order of their first insertion.
MapPush(fingerprintMap, key, rule) ==
    IF \E i \in 1..Len(fingerprintMap) : fingerprintMap[i].key = key
    THEN [i \in 1..Len(fingerprintMap) |->
            IF fingerprintMap[i].key = key
            THEN [fingerprintMap[i] EXCEPT !.rules = Append(@, rule)]
            ELSE fingerprintMap[i]]
    ELSE Append(fingerprintMap, [key |-> key, rules |-> <<rule>>])

\* The fingerprintMap of findDuplicateRules after rules.forEach.
RECURSIVE GroupByFingerprint(_)
GroupByFingerprint(rules) ==
    IF rules = <<>> THEN <<>>
    ELSE MapPush(GroupByFingerprint(SubSeq(rules, 1, Len(rules) - 1)),
                 FingerprintKey(rules[Len(rules)]), rules[Len(rules)])

\* areRulesExactDuplicates comparing the names only.
areRulesExactDuplicatesByName(rules) ==
    IF Len(rules) < 2 THEN FALSE
    ELSE \A i \in 1..Len(rules) : rules[i].name = rules[1].name

areRulesExactDuplicates(rules) ==
    IF Len(rules) < 2 THEN FALSE
    ELSE \A i \in 1..Len(rules) :
            /\ rules[i].name = rules[1].name
            /\ rules[i].collectionName = rules[1].collectionName

\* The duplicate groups: the entries of the Map with more than one rule, in
\* the Map's order.  A group keeps the key its fingerprint field is parsed
\* from; the description is left out.
findDuplicateRules(rules) ==
    LET entries == SelectSeq(GroupByFingerprint(rules), LAMBDA e : Len(e.rules) > 1)
    IN [i \in 1..Len(entries) |->
            [id |-> "duplicate_" \o ToString(i),
             key |-> entries[i].key,
             rules |-> entries[i].rules,
             type |-> IF areRulesExactDuplicates(entries[i].rules)
                      THEN "exact_duplicate" ELSE "similar_rules"]]

\* getRuleAction looking at the rule's name only.
getRuleActionByRuleName(rule) ==
    IF includes(toLowerCase(rule.name), "deny") \/ includes(toLowerCase(rule.name), "block")
    THEN "Deny" ELSE "Allow"

getRuleAction(rule) ==
    LET ruleName == toLowerCase(rule.name)
        collectionName == toLowerCase(rule.collectionName)
    IN IF \/ includes(ruleName, "deny") \/ includes(ruleName, "block")
          \/ includes(collectionName, "deny") \/ includes(collectionName, "block")
       THEN "Deny" ELSE "Allow"

\* hasArrayOverlap without the empty array standing for "any".
hasArrayOverlapNonEmpty(arr1, arr2) ==
    \E i \in 1..Len(arr1) : \E j \in 1..Len(arr2) : arr1[i] = arr2[j]

hasArrayOverlap(arr1, arr2) ==
    IF Len(arr1) = 0 \/ Len(arr2) = 0 THEN TRUE
    ELSE \E i \in 1..Len(arr1) : \E j \in 1..Len(arr2) : arr1[i] = arr2[j]

\* arr1.length === arr2.length && arr1.every(item => arr2.includes(item))
arraysEqual(arr1, arr2) ==
    IF Len(arr1) # Len(arr2) THEN FALSE
    ELSE \A i \in 1..Len(arr1) : \E j \in 1..Len(arr2) : arr1[i] = arr2[j]

hasOverlappingTrafficPattern(fp1, fp2) ==
    LET dest1 == fp1.destinationAddresses \o fp1.targetFqdns
        dest2 == fp2.destinationAddresses \o fp2.targetFqdns
    IN IF ~hasArrayOverlap(fp1.sourceAddresses, fp2.sourceAddresses) THEN FALSE
       ELSE IF ~hasArrayOverlap(dest1, dest2) THEN FALSE
       ELSE IF ~hasArrayOverlap(fp1.destinationPorts, fp2.destinationPorts) THEN FALSE
       ELSE IF ~hasArrayOverlap(fp1.ipProtocols, fp2.ipProtocols) THEN FALSE
       ELSE TRUE

areTrafficPatternsIdentical(fp1, fp2) ==
    /\ arraysEqual(fp1.sourceAddresses, fp2.sourceAddresses)
    /\ arraysEqual(fp1.destinationAddresses, fp2.destinationAddresses)
    /\ arraysEqual(fp1.targetFqdns, fp2.targetFqdns)
    /\ arraysEqual(fp1.destinationPorts, fp2.destinationPorts)
    /\ arraysEqual(fp1.ipProtocols, fp2.ipProtocols)

\* The ruleAnalysis of the application before an upload.
NoAnalysis == [null |-> TRUE]

\* The null detectConflictBetweenRules returns for a pair without conflict.
NoConflict == [null |-> TRUE]

\* The conflict of rule1 with rule2 (the description is left out).
detectConflictBetweenRules(rule1, rule2) ==
    IF rule1.ruleType # rule2.ruleType THEN NoConflict
    ELSE LET fingerprint1 == generateRuleFingerprint(rule1)
             fingerprint2 == generateRuleFingerprint(rule2)
         IN IF ~hasOverlappingTrafficPattern(fingerprint1, fingerprint2) THEN NoConflict
            ELSE IF /\ rule1.ruleType \in {"NetworkRule", "ApplicationRule"}
                    /\ getRuleAction(rule1) # getRuleAction(rule2)
                 THEN [type |-> "allow_deny_conflict", severity |-> "high"]
            ELSE IF /\ rule1.processingOrder < rule2.processingOrder
                    /\ areTrafficPatternsIdentical(fingerprint1, fingerprint2)
                 THEN [type |-> "priority_conflict", severity |-> "medium"]
            ELSE [type |-> "overlapping_rules", severity |-> "low"]

\* The conflicts pushed in the loops over i < j, before their ids are given.
ConflictsOfPairs(sortedRules) ==
    Flatten([i \in 1..Len(sortedRules) |->
        Flatten([k \in 1..(Len(sortedRules) - i) |->
            LET conflict == detectConflictBetweenRules(sortedRules[i], sortedRules[i + k])
            IN IF conflict = NoConflict THEN <<>>
               ELSE <<[conflictType |-> conflict.type,
                       severity |-> conflict.severity,
                       rules |-> [primary |-> sortedRules[i],
                                  conflicting |-> sortedRules[i + k]]]>>])])

\* findRuleConflicts over the rules as given, without the sort.
findRuleConflictsUnsorted(rules) ==
    LET found == ConflictsOfPairs(rules)
    IN [n \in 1..Len(found) |-> [id |-> "conflict_" \o ToString(n)] @@ found[n]]

findRuleConflicts(rules) ==
    LET found == ConflictsOfPairs(SortRules(rules))
    IN [n \in 1..Len(found) |-> [id |-> "conflict_" \o ToString(n)] @@ found[n]]

\* The list given to findRuleConflicts after the call: the sort is done on
\* the copy [...rules].
rulesAfterFindRuleConflicts(rules) == rules

getAllRulesFlat(groups) ==
    Flatten([i \in 1..Len(groups) |-> RulesOfCollections(groups[i].processedCollections)])

\* The ids of the rules named by the conflicts, as the Set of analyzeRules.
ConflictingIds(conflicts) ==
    {conflicts[n].rules.primary.id : n \in 1..Len(conflicts)}
        \cup {conflicts[n].rules.conflicting.id : n \in 1..Len(conflicts)}

analyzeRules(groups) ==
    LET allRules == getAllRulesFlat(groups)
        duplicates == findDuplicateRules(allRules)
        conflicts == findRuleConflicts(allRules)
    IN [duplicates |-> duplicates,
        conflicts |-> conflicts,
        statistics |->
            [totalRules |-> Len(allRules),
             duplicateRules |-> SumSeq([i \in 1..Len(duplicates) |-> Len(duplicates[i].rules)]),
             conflictingRules |-> Cardinality(ConflictingIds(conflicts)),
             duplicateGroups |-> Len(duplicates),
             conflicts |-> Len(conflicts)]]

(***************************************************************************)
(* FirewallPolicyParser (parser.ts)                                        *)
(*                                                                         *)
(* A value read from JSON carries its typeof: a name or a priority of the  *)
(* template can be a string, a number or missing.  A throw is the record   *)
(* Thrown(message); every parse function returns its value or the throw.   *)
(***************************************************************************)

Undefined == [type |-> "undefined"]

StringValue(s) == [type |-> "string", value |-> s]

NumberValue(n) == [type |-> "number", value |-> n]

\* !value
Falsy(v) ==
    \/ v.type = "undefined"
    \/ (v.type = "string" /\ v.value = "")
    \/ (v.type = "number" /\ v.value = 0)

\* String(value) inside a template literal
TextOf(v) ==
    CASE v.type = "string" -> v.value
      [] v.type = "number" -> ToString(v.value)
      [] OTHER -> "undefined"

Thrown(message) == [error |-> message]

IsThrown(x) == "error" \in DOMAIN x

\* The index of the first throw of a map, 0 if no callback threw.
FirstThrown(results) ==
    LET thrown == {i \in 1..Len(results) : IsThrown(results[i])}
    IN IF thrown = {} THEN 0 ELSE CHOOSE i \in thrown : \A j \in thrown : i <= j

\* The text of a file: well formed JSON with its value, or text JSON.parse
\* rejects.
EmptyTemplate == [wellFormed |-> TRUE, value |-> [parameters |-> Undefined, resources |-> <<>>]]

\* JSON.parse
JsonParse(content) ==
    IF content.wellFormed THEN content.value ELSE Thrown("SyntaxError")

isFirewallPolicyResource(resource) == resource.type = "Microsoft.Network/firewallPolicies"

isRuleCollectionGroupResource(resource) ==
    resource.type = "Microsoft.Network/firewallPolicies/ruleCollectionGroups"

\* Array.prototype.find with isFirewallPolicyResource: the index, 0 if none.
FindPolicyResource(resources) ==
    LET found == {i \in 1..Len(resources) : isFirewallPolicyResource(resources[i])}
    IN IF found = {} THEN 0 ELSE CHOOSE i \in found : \A j \in found : i <= j

RECURSIVE FilterGroupResources(_)
FilterGroupResources(resources) ==
    IF resources = <<>> THEN <<>>
    ELSE (IF isRuleCollectionGroupResource(Head(resources)) THEN <<Head(resources)>> ELSE <<>>)
         \o FilterGroupResources(Tail(resources))

StartsWithAt(s, i, prefix) ==
    /\ i + Len(prefix) - 1 <= Len(s)
    /\ SubSeq(s, i, i + Len(prefix) - 1) = prefix

endsWith(s, suffix) ==
    /\ Len(suffix) <= Len(s)
    /\ SubSeq(s, Len(s) - Len(suffix) + 1, Len(s)) = suffix

\* The first index from `from` on of a character of chars, 0 if none.
IndexOfAnyFrom(s, chars, from) ==
    LET found == {i \in from..Len(s) : CharAt(s, i) \in chars}
    IN IF found = {} THEN 0 ELSE CHOOSE i \in found : \A j \in found : i <= j

\* /parameters\('([^']+)'\)/ tried at index i: the captured name, "" if the
\* expression does not match there.
ParametersMatchAt(s, i) ==
    LET start == i + Len("parameters('")
        quote == IndexOfAnyFrom(s, {"'"}, start)
    IN IF StartsWithAt(s, i, "parameters('") /\ quote > start /\ StartsWithAt(s, quote, "')")
       THEN SubSeq(s, start, quote - 1)
       ELSE ""

\* nameExpression.match(/parameters\('([^']+)'\)/): match[1] of the leftmost
\* match, "" if there is none.
MatchParameters(s) ==
    LET hits == {i \in 1..Len(s) : ParametersMatchAt(s, i) # ""}
    IN IF hits = {} THEN ""
       ELSE ParametersMatchAt(s, CHOOSE i \in hits : \A j \in hits : i <= j)

extractPolicyName(nameExpression, parameters) ==
    IF nameExpression.type # "string"
    THEN Thrown("TypeError: nameExpression.startsWith is not a function")
    ELSE LET s == nameExpression.value
             paramName == MatchParameters(s)
             paramDef == IF parameters # Undefined /\ paramName \in DOMAIN parameters.value
                         THEN parameters.value[paramName]
                         ELSE Undefined
         IN IF StartsWithAt(s, 1, "[") /\ endsWith(s, "]") /\ paramName # "" /\ parameters # Undefined
            THEN IF paramDef # Undefined /\ paramDef.defaultValue.type = "string"
                 THEN paramDef.defaultValue
                 ELSE StringValue(paramName)
            ELSE nameExpression

\* sku.tier and threatIntelMode with their defaults; the optional sections
\* are undefined when the template has none.
parseFirewallPolicyProperties(properties) ==
    [sku |-> [tier |-> IF properties.sku.tier \in {"Premium", "Basic"}
                       THEN properties.sku.tier ELSE "Standard"],
     threatIntelMode |-> IF properties.threatIntelMode \in {"Off", "Alert", "Deny"}
                         THEN properties.threatIntelMode ELSE "Alert"]

\* /\/([^'/]+)'\)]/ tried at index i.
GroupNameMatchAt(s, i) ==
    LET stop == IndexOfAnyFrom(s, {"'", "/"}, i + 1)
    IN IF CharAt(s, i) = "/" /\ stop > i + 1 /\ StartsWithAt(s, stop, "')]")
       THEN SubSeq(s, i + 1, stop - 1)
       ELSE ""

\* parts[parts.length - 1] of nameExpression.split('/')
RECURSIVE LastPart(_)
LastPart(s) ==
    IF IndexOfChar(s, "/") = 0 THEN s
    ELSE LastPart(SubSeq(s, IndexOfChar(s, "/") + 1, Len(s)))

\* .replace(/['\]]/g, '')
RECURSIVE RemoveQuotesAndBrackets(_)
RemoveQuotesAndBrackets(s) ==
    IF s = "" THEN ""
    ELSE (IF CharAt(s, 1) \in {"'", "]"} THEN "" ELSE CharAt(s, 1))
         \o RemoveQuotesAndBrackets(SubSeq(s, 2, Len(s)))

extractGroupName(nameExpression) ==
    LET hits == {i \in 1..Len(nameExpression) : GroupNameMatchAt(nameExpression, i) # ""}
    IN IF hits # {}
       THEN GroupNameMatchAt(nameExpression, CHOOSE i \in hits : \A j \in hits : i <= j)
       ELSE IF includes(nameExpression, "/")
       THEN RemoveQuotesAndBrackets(LastPart(nameExpression))
       ELSE nameExpression

parseRule(rule) ==
    IF rule.ruleType \in RuleType
    THEN [name |-> rule.name, ruleType |-> rule.ruleType,
          sourceAddresses |-> OrEmpty(rule, "sourceAddresses")]
    ELSE Thrown("Unknown value: " \o "[object Object]")

parseRuleCollection(collection) ==
    LET rules == [i \in 1..Len(collection.rules) |-> parseRule(collection.rules[i])]
        baseCollection == [name |-> collection.name, priority |-> collection.priority, rules |-> rules]
    IN IF FirstThrown(rules) # 0 THEN rules[FirstThrown(rules)]
       ELSE IF collection.ruleCollectionType = "FirewallPolicyFilterRuleCollection"
       THEN baseCollection @@
            [ruleCollectionType |-> collection.ruleCollectionType,
             action |-> [type |-> IF collection.action = "" THEN "Allow" ELSE collection.action]]
       ELSE IF collection.ruleCollectionType = "FirewallPolicyNatRuleCollection"
       THEN baseCollection @@
            [ruleCollectionType |-> collection.ruleCollectionType, action |-> [type |-> "Dnat"]]
       ELSE Thrown("Unknown rule collection type: " \o collection.ruleCollectionType)

parseRuleCollectionGroup(resource) ==
    LET raw == resource.properties.ruleCollections
        ruleCollections == [i \in 1..Len(raw) |-> parseRuleCollection(raw[i])]
    IN IF resource.name.type # "string"
       THEN Thrown("TypeError: nameExpression.match is not a function")
       ELSE IF FirstThrown(ruleCollections) # 0 THEN ruleCollections[FirstThrown(ruleCollections)]
       ELSE [name |-> extractGroupName(resource.name.value),
             priority |-> resource.properties.priority,
             ruleCollections |-> ruleCollections]

InvalidPriorityBelowOnly(priority) ==
    priority.type # "number" \/ priority.value < 100

\* typeof priority !== 'number' || priority < 100 || priority > 65000
InvalidPriority(priority) ==
    priority.type # "number" \/ priority.value < 100 \/ priority.value > 65000

\* The throws of the inner forEach, in order: per collection its name, then
\* its priority.
CollectionChecks(group) ==
    Flatten([c \in 1..Len(group.ruleCollections) |->
        LET collection == group.ruleCollections[c]
        IN (IF Falsy(collection.name)
            THEN <<Thrown("Rule collection at index " \o ToString(c - 1) \o " in group \""
                          \o group.name \o "\" is missing a name")>>
            ELSE <<>>)
           \o (IF InvalidPriority(collection.priority)
               THEN <<Thrown("Rule collection \"" \o TextOf(collection.name)
                             \o "\" has invalid priority: " \o TextOf(collection.priority))>>
               ELSE <<>>)])

\* The throws of the outer forEach, in order: per group its name, its
\* priority, then its collections.
GroupChecks(groups) ==
    Flatten([g \in 1..Len(groups) |->
        LET group == groups[g]
        IN (IF group.name = ""
            THEN <<Thrown("Rule collection group at index " \o ToString(g - 1) \o " is missing a name")>>
            ELSE <<>>)
           \o (IF InvalidPriority(group.priority)
               THEN <<Thrown("Rule collection group \"" \o group.name
                             \o "\" has invalid priority: " \o TextOf(group.priority))>>
               ELSE <<>>)
           \o CollectionChecks(group)])

\* The policy if it is valid, the first throw otherwise.
validateParsedPolicy(parsed) ==
    IF Falsy(parsed.name) THEN Thrown("Policy name is required")
    ELSE IF Len(parsed.ruleCollectionGroups) = 0 THEN Thrown("No rule collection groups found")
    ELSE IF GroupChecks(parsed.ruleCollectionGroups) # <<>>
    THEN Head(GroupChecks(parsed.ruleCollectionGroups))
    ELSE parsed

parseFirewallPolicy(content) ==
    LET template == JsonParse(content)
    IN IF IsThrown(template) THEN Thrown("Invalid JSON format")
       ELSE IF "resources" \notin DOMAIN template
       THEN Thrown("Invalid template: missing resources array")
       ELSE IF FindPolicyResource(template.resources) = 0
       THEN Thrown("No firewall policy found in template")
       ELSE LET policyResource == template.resources[FindPolicyResource(template.resources)]
                ruleCollectionGroupResources == FilterGroupResources(template.resources)
                name == extractPolicyName(policyResource.name, template.parameters)
                groups == [i \in 1..Len(ruleCollectionGroupResources) |->
                              parseRuleCollectionGroup(ruleCollectionGroupResources[i])]
            IN IF IsThrown(name) THEN name
               ELSE IF FirstThrown(groups) # 0 THEN groups[FirstThrown(groups)]
               ELSE validateParsedPolicy(
                        [type |-> policyResource.type,
                         name |-> name,
                         properties |-> parseFirewallPolicyProperties(policyResource.properties),
                         ruleCollectionGroups |-> groups])

\* The rules of the policy, over its groups and collections.
DeclaredRulesOf(p) ==
    Flatten([g \in 1..Len(p.ruleCollectionGroups) |->
        Flatten([c \in 1..Len(p.ruleCollectionGroups[g].ruleCollections) |->
            p.ruleCollectionGroups[g].ruleCollections[c].rules])])

\* The switch on rule.ruleType: the rules one case counts.
CountRuleType(p, ruleType) ==
    Len(SelectSeq(DeclaredRulesOf(p), LAMBDA rule : rule.ruleType = ruleType))

\* The counts of the summary; threatIntelMode, idpsMode and sku are copied
\* from the properties of the policy.
getPolicySummary(p) ==
    [totalRuleGroups |-> Len(p.ruleCollectionGroups),
     totalRuleCollections |->
         SumSeq([g \in 1..Len(p.ruleCollectionGroups) |->
                    Len(p.ruleCollectionGroups[g].ruleCollections)]),
     totalRules |-> Len(DeclaredRulesOf(p)),
     rulesByType |-> [DNAT |-> CountRuleType(p, "NatRule"),
                      Network |-> CountRuleType(p, "NetworkRule"),
                      Application |-> CountRuleType(p, "ApplicationRule")]]

(***************************************************************************)
(* The inputs: the child policy and the parent policy are composed one     *)
(* group, collection or rule at a time, parent groups first, each appended *)
(* to the end of the last group or collection.  Names follow the position  *)
(* of declaration, so a parent and a child group can carry the same name.  *)
(***************************************************************************)

\* The policy being composed: the child policy once it has groups.
LastIsChild == Len(PolicyGroups(policy)) > 0

LastGroups == IF LastIsChild THEN PolicyGroups(policy) ELSE PolicyGroups(parentPolicy)

WithLastGroups(gs) ==
    IF LastIsChild
    THEN /\ policy' = [ruleCollectionGroups |-> gs]
         /\ UNCHANGED parentPolicy
    ELSE /\ parentPolicy' = [ruleCollectionGroups |-> gs]
         /\ UNCHANGED policy

NewGroup(n, priority) ==
    [name |-> "Group" \o ToString(n), priority |-> priority, ruleCollections |-> <<>>]

NewCollection(n, priority) ==
    [name |-> "Collection" \o ToString(n), priority |-> priority, rules |-> <<>>]

NewRule(n, ruleType) == [name |-> "Rule" \o ToString(n), ruleType |-> ruleType]

\* A group is appended to the parent policy (before the child has groups).
AddParentGroup ==
    /\ pc = "input"
    /\ ~LastIsChild
    /\ InputNodes < MaxNodes
    /\ \E priority \in GroupPriorities :
          parentPolicy' = [ruleCollectionGroups |->
              Append(PolicyGroups(parentPolicy),
                     NewGroup(Len(PolicyGroups(parentPolicy)) + 1, priority))]
    /\ UNCHANGED <<policy, processedGroups, pc, ruleAnalysis, jsonContent, report>>

\* A group is appended to the child policy.
AddChildGroup ==
    /\ pc = "input"
    /\ InputNodes < MaxNodes
    /\ \E priority \in GroupPriorities :
          policy' = [ruleCollectionGroups |->
              Append(PolicyGroups(policy),
                     NewGroup(Len(PolicyGroups(policy)) + 1, priority))]
    /\ UNCHANGED <<parentPolicy, processedGroups, pc, ruleAnalysis, jsonContent, report>>

\* A collection is appended to the last group.
AddRuleCollection ==
    /\ pc = "input"
    /\ Len(LastGroups) > 0
    /\ InputNodes < MaxNodes
    /\ \E priority \in CollectionPriorities :
          LET g == LastGroups[Len(LastGroups)]
              c == NewCollection(Len(g.ruleCollections) + 1, priority)
          IN WithLastGroups([LastGroups EXCEPT ![Len(LastGroups)].ruleCollections =
                                Append(g.ruleCollections, c)])
    /\ UNCHANGED <<processedGroups, pc, ruleAnalysis, jsonContent, report>>

\* A rule of kind ruleType is appended to the last collection of the last group.
AppendRule(ruleType) ==
    /\ pc = "input"
    /\ Len(LastGroups) > 0
    /\ Len(LastGroups[Len(LastGroups)].ruleCollections) > 0
    /\ InputNodes < MaxNodes
    /\ LET g == LastGroups[Len(LastGroups)]
           k == Len(g.ruleCollections)
           r == NewRule(Len(g.ruleCollections[k].rules) + 1, ruleType)
       IN WithLastGroups([LastGroups EXCEPT ![Len(LastGroups)].ruleCollections[k].rules =
                             Append(g.ruleCollections[k].rules, r)])
    /\ UNCHANGED <<processedGroups, pc, ruleAnalysis, jsonContent, report>>

AddRule == \E ruleType \in RuleType : AppendRule(ruleType)

\* A rule whose kind is none of the three known kinds.
AddUnknownRule == AppendRule(UnknownRuleType)

\* The complex-policy.json fixture of the tests: HighPriorityGroup (100) with a
\* NAT collection, a Network collection of 2 rules and an Application
\* collection, and LowPriorityGroup (1000) with a Network collection of 1 deny rule.
ComplexPolicy ==
    [ruleCollectionGroups |-> <<
        [name |-> "HighPriorityGroup", priority |-> 100, ruleCollections |-> <<
            [name |-> "DNATRules", priority |-> 100, rules |-> <<
                [name |-> "DNATWeb", ruleType |-> "NatRule"]>>],
            [name |-> "NetworkRules", priority |-> 200, rules |-> <<
                [name |-> "AllowHTTP", ruleType |-> "NetworkRule"],
                [name |-> "AllowDNS", ruleType |-> "NetworkRule"]>>],
            [name |-> "ApplicationRules", priority |-> 300, rules |-> <<
                [name |-> "AllowWeb", ruleType |-> "ApplicationRule"]>>]>>],
        [name |-> "LowPriorityGroup", priority |-> 1000, ruleCollections |-> <<
            [name |-> "DenyRules", priority |-> 100, rules |-> <<
                [name |-> "DenyAll", ruleType |-> "NetworkRule"]>>]>>]>>]

\* The tests' input: the fixture is read as the child policy, without parent.
LoadComplexPolicy ==
    /\ pc = "input"
    /\ policy = EmptyPolicy
    /\ parentPolicy = NoPolicy
    /\ policy' = ComplexPolicy
    /\ UNCHANGED <<parentPolicy, processedGroups, pc, ruleAnalysis, jsonContent, report>>

\* RuleProcessor.processFirewallPolicy(policy, parentPolicy)
ProcessFirewallPolicy ==
    /\ pc = "input"
    /\ processedGroups' = processFirewallPolicy(policy, parentPolicy)
    /\ policy' = PolicyAfterProcessing(policy)
    /\ parentPolicy' = PolicyAfterProcessing(parentPolicy)
    /\ pc' = "processed"
    /\ UNCHANGED <<ruleAnalysis, jsonContent, report>>

Init ==
    /\ policy = EmptyPolicy
    /\ parentPolicy = NoPolicy
    /\ processedGroups = <<>>
    /\ pc = "input"
    /\ ruleAnalysis = NoAnalysis
    /\ jsonContent = EmptyTemplate
    /\ report = [null |-> TRUE]

Next ==
    \/ AddParentGroup
    \/ AddChildGroup
    \/ AddRuleCollection
    \/ AddRule
    \/ LoadComplexPolicy
    \/ ProcessFirewallPolicy

Spec == Init /\ [][Next]_vars

\* The same, with rules of an unknown kind among the inputs.
NextUnknownKind ==
    \/ Next
    \/ AddUnknownRule

SpecUnknownKind == Init /\ [][NextUnknownKind]_vars

\* The processed policy is inspected: its statistics next to the summary of
\* the policy, and the warnings of the validation.
InspectProcessedPolicy ==
    /\ pc = "processed"
    /\ report' = [summary |-> getPolicySummary(policy),
                  processingStats |-> getProcessingStatistics(processedGroups),
                  warnings |-> validateProcessingOrder(processedGroups)]
    /\ pc' = "inspected"
    /\ UNCHANGED <<policy, parentPolicy, processedGroups, ruleAnalysis, jsonContent>>

NextInspect ==
    \/ Next
    \/ InspectProcessedPolicy

SpecInspect == Init /\ [][NextInspect]_vars

(***************************************************************************)
(* The inputs of the analysis: an uploaded policy whose rules carry their  *)
(* traffic fields.  The rules are variations of a few rules; the rules of  *)
(* one policy vary one trait: the names, the kind, or one list.            *)
(***************************************************************************)

WebNetworkRule ==
    [name |-> "AllowWeb", ruleType |-> "NetworkRule",
     ipProtocols |-> <<"TCP">>,
     sourceAddresses |-> <<"10.0.0.1">>,
     destinationAddresses |-> <<"10.1.0.1">>,
     destinationPorts |-> <<"80">>]

WebNatRule ==
    [name |-> "AllowWeb", ruleType |-> "NatRule",
     translatedAddress |-> "10.2.0.1", translatedPort |-> "8080",
     ipProtocols |-> <<"TCP">>,
     sourceAddresses |-> <<"10.0.0.1">>,
     destinationAddresses |-> <<"10.1.0.1">>,
     destinationPorts |-> <<"80">>]

Http == [protocolType |-> "Http", port |-> 80]

Https == [protocolType |-> "Https", port |-> 443]

WebApplicationRule ==
    [name |-> "AllowWeb", ruleType |-> "ApplicationRule",
     protocols |-> <<Https>>,
     targetFqdns |-> <<"a.com">>,
     sourceAddresses |-> <<"10.0.0.1">>,
     destinationAddresses |-> <<>>]

\* A rule with the name of the collection that declares it.
In(collection, rule) == [collection |-> collection, rule |-> rule]

NameVariants ==
    {In(c, [WebNetworkRule EXCEPT !.name = n]) :
        n \in {"AllowWeb", "DenyWeb", "UnBlockDns"}, c \in {"NetRules", "DENY"}}

KindVariants ==
    {In("Rules", [r EXCEPT !.name = n]) :
        r \in {WebNatRule, WebNetworkRule, WebApplicationRule}, n \in {"AllowWeb", "DenyWeb"}}

SourceVariants ==
    {In("NetRules", [WebNetworkRule EXCEPT !.sourceAddresses = s]) :
        s \in {<<>>, <<"10.0.0.1">>, <<"VNet">>, <<" vnet ">>,
               <<"10.0.0.1", "VNet">>, <<"vnet", "10.0.0.1">>, <<"vnet", "VNET">>}}

DestinationVariants ==
    {In("AppRules", [WebApplicationRule EXCEPT !.destinationAddresses = d[1], !.targetFqdns = d[2]]) :
        d \in {<<<<>>, <<>>>>, <<<<"10.1.0.1">>, <<>>>>, <<<<>>, <<"a.com">>>>,
               <<<<>>, <<" A.com">>>>, <<<<"10.1.0.1">>, <<"b.com", "a.com">>>>,
               <<<<"10.1.0.1">>, <<"A.COM", "b.com">>>>}}

PortVariants ==
    {In("NetRules", [WebNetworkRule EXCEPT !.destinationPorts = p]) :
        p \in {<<>>, <<"80">>, <<" 80 ">>, <<"443", "80">>, <<"80", "443">>,
               <<"Any">>, <<"any">>}}

ProtocolVariants ==
    {In("NetRules", [WebNetworkRule EXCEPT !.ipProtocols = p]) :
        p \in {<<>>, <<"TCP">>, <<" tcp">>, <<"UDP">>, <<"TCP", "UDP">>, <<"udp", "Tcp">>}}

\* Network rules whose destination is given by FQDN.
DestinationFqdnVariants ==
    {In("NetRules", WebNetworkRule)} \cup
    {In("NetRules", [WebNetworkRule EXCEPT !.destinationAddresses = <<>>]
                        @@ [destinationFqdns |-> f]) :
        f \in {<<"a.com">>, <<"b.com">>, <<"a.com", "b.com">>}}

ApplicationProtocolVariants ==
    {In("AppRules", [WebApplicationRule EXCEPT !.protocols = p]) :
        p \in {<<>>, <<Http>>, <<Https>>, <<Http, Https>>}}

\* Rules declared in groups of their own.
GroupVariants ==
    {In("NetRules", WebNetworkRule),
     In("NetRules", [WebNetworkRule EXCEPT !.name = "AllowDns", !.ipProtocols = <<"UDP">>,
                                           !.destinationPorts = <<"53">>]),
     In("NetRules", [WebNetworkRule EXCEPT !.name = "AllowAll", !.ipProtocols = <<>>,
                                           !.destinationPorts = <<>>])}

\* The sets of rules a policy is drawn from; groups tells whether the rules
\* of the set can open a group of their own.
Families ==
    {[variants |-> v, groups |-> FALSE] :
        v \in {NameVariants, KindVariants, SourceVariants, DestinationVariants,
               PortVariants, ProtocolVariants, DestinationFqdnVariants,
               ApplicationProtocolVariants}}
    \cup {[variants |-> GroupVariants, groups |-> TRUE]}

\* The rules of the policy with their collections' names, in declaration order.
DeclaredRules(p) ==
    Flatten([g \in 1..Len(p.ruleCollectionGroups) |->
        Flatten([c \in 1..Len(p.ruleCollectionGroups[g].ruleCollections) |->
            LET collection == p.ruleCollectionGroups[g].ruleCollections[c]
            IN [r \in 1..Len(collection.rules) |-> In(collection.name, collection.rules[r])]])])

\* The policy with variant declared last: in the last collection if it has
\* variant's collection name, else in a new collection of the last group, or
\* in a new group.
DeclareRule(p, variant, newGroup) ==
    LET groups == p.ruleCollectionGroups
        n == Len(groups)
        k == Len(groups[n].ruleCollections)
    IN IF n = 0 \/ newGroup
       THEN [ruleCollectionGroups |-> Append(groups,
                [name |-> "Group" \o ToString(n + 1), priority |-> 100 * (n + 1),
                 ruleCollections |-> <<[name |-> variant.collection, priority |-> 100,
                                        rules |-> <<variant.rule>>]>>])]
       ELSE IF groups[n].ruleCollections[k].name = variant.collection
       THEN [ruleCollectionGroups |->
                [groups EXCEPT ![n].ruleCollections[k].rules = Append(@, variant.rule)]]
       ELSE [ruleCollectionGroups |->
                [groups EXCEPT ![n].ruleCollections = Append(@,
                    [name |-> variant.collection, priority |-> 100 * (k + 1),
                     rules |-> <<variant.rule>>])]]

\* One more rule in the file that will be uploaded.
AddAnalyzedRule ==
    /\ pc = "input"
    /\ parentPolicy = NoPolicy
    /\ Len(DeclaredRules(policy)) < MaxAnalyzedRules
    /\ \E f \in Families :
          /\ \A i \in 1..Len(DeclaredRules(policy)) : DeclaredRules(policy)[i] \in f.variants
          /\ \E variant \in f.variants :
                \E newGroup \in (IF f.groups /\ policy # EmptyPolicy THEN BOOLEAN ELSE {FALSE}) :
                    policy' = DeclareRule(policy, variant, newGroup)
    /\ UNCHANGED <<parentPolicy, processedGroups, pc, ruleAnalysis, jsonContent, report>>

\* handleFileUpload: the policy is processed and the processed groups are analyzed.
HandleFileUpload ==
    /\ pc = "input"
    /\ parentPolicy = NoPolicy
    /\ processedGroups' = processFirewallPolicy(policy, NoPolicy)
    /\ ruleAnalysis' = analyzeRules(processedGroups')
    /\ policy' = PolicyAfterProcessing(policy)
    /\ pc' = "analyzed"
    /\ UNCHANGED <<parentPolicy, jsonContent, report>>

NextAnalyze ==
    \/ AddAnalyzedRule
    \/ HandleFileUpload

SpecAnalyze == Init /\ [][NextAnalyze]_vars

(***************************************************************************)
(* The inputs of the parser: the text of an exported template, built one   *)
(* resource, collection or rule at a time from well formed and from        *)
(* malformed parts, then given to parseFirewallPolicy.                     *)
(***************************************************************************)

\* The policy resource's name with the parameters section of its template.
PolicyResourceVariants ==
    {[name |-> StringValue("fw-policy"), parameters |-> Undefined],
     [name |-> StringValue("[parameters('policyName')]"),
      parameters |-> [type |-> "object",
                      value |-> [policyName |-> [defaultValue |-> StringValue("fw-prod")]]]],
     [name |-> StringValue("[parameters('policyName')]"),
      parameters |-> [type |-> "object",
                      value |-> [policyName |-> [defaultValue |-> Undefined]]]],
     [name |-> StringValue("[parameters('policyName')]"),
      parameters |-> [type |-> "object",
                      value |-> [policyName |-> [defaultValue |-> StringValue("")]]]],
     [name |-> StringValue(""), parameters |-> Undefined],
     [name |-> Undefined, parameters |-> Undefined]}

PolicyResource(name) ==
    [type |-> "Microsoft.Network/firewallPolicies", name |-> name,
     properties |-> [sku |-> [tier |-> "Premium"], threatIntelMode |-> "Deny"]]

GroupResource(name, priority) ==
    [type |-> "Microsoft.Network/firewallPolicies/ruleCollectionGroups", name |-> name,
     properties |-> [priority |-> priority, ruleCollections |-> <<>>]]

\* The resources after the policy: groups well formed and not, and a
\* resource of another type.
ResourceVariants ==
    {GroupResource(StringValue("[concat(parameters('policyName'), '/NetGroup')]"), NumberValue(200)),
     GroupResource(StringValue("fw-policy/AppGroup"), NumberValue(100)),
     GroupResource(StringValue("fw-policy/"), NumberValue(200)),
     GroupResource(Undefined, NumberValue(200)),
     GroupResource(StringValue("fw-policy/LowGroup"), NumberValue(99)),
     GroupResource(StringValue("fw-policy/TextGroup"), StringValue("200")),
     [type |-> "Microsoft.Network/virtualNetworks", name |-> StringValue("test-vnet")]}

RawCollection(name, priority, ruleCollectionType, action) ==
    [name |-> name, priority |-> priority, ruleCollectionType |-> ruleCollectionType,
     action |-> action, rules |-> <<>>]

CollectionVariants ==
    {RawCollection(StringValue("AllowWeb"), NumberValue(100), "FirewallPolicyFilterRuleCollection", "Deny"),
     RawCollection(StringValue("Inbound"), NumberValue(65000), "FirewallPolicyNatRuleCollection", ""),
     RawCollection(StringValue(""), NumberValue(100), "FirewallPolicyFilterRuleCollection", ""),
     RawCollection(Undefined, NumberValue(100), "FirewallPolicyFilterRuleCollection", "Allow"),
     RawCollection(StringValue("High"), NumberValue(65001), "FirewallPolicyFilterRuleCollection", "Allow"),
     RawCollection(StringValue("NoPriority"), Undefined, "FirewallPolicyFilterRuleCollection", "Allow"),
     RawCollection(StringValue("Other"), NumberValue(100), "FirewallPolicyOtherRuleCollection", "Allow")}

TemplateResources == jsonContent.value.resources

\* The resources after the policy + their collections + their rules.
TemplateNodes ==
    SumSeq([i \in 1..Len(TemplateResources) |->
        IF isRuleCollectionGroupResource(TemplateResources[i])
        THEN 1 + SumSeq([c \in 1..Len(TemplateResources[i].properties.ruleCollections) |->
                            CollectionNodes(TemplateResources[i].properties.ruleCollections[c])])
        ELSE IF isFirewallPolicyResource(TemplateResources[i]) THEN 0 ELSE 1])

Composing ==
    /\ pc = "input"
    /\ jsonContent.wellFormed
    /\ "resources" \in DOMAIN jsonContent.value

LastResource == TemplateResources[Len(TemplateResources)]

LastIsGroup == Len(TemplateResources) > 0 /\ isRuleCollectionGroupResource(LastResource)

\* An export lists the policy before its groups.
AddPolicyResource ==
    /\ Composing
    /\ TemplateResources = <<>>
    /\ \E variant \in PolicyResourceVariants :
          jsonContent' = [jsonContent EXCEPT
              !.value = [parameters |-> variant.parameters,
                         resources |-> <<PolicyResource(variant.name)>>]]
    /\ UNCHANGED <<policy, parentPolicy, processedGroups, pc, ruleAnalysis, report>>

AddResource ==
    /\ Composing
    /\ TemplateNodes < MaxTemplateNodes
    /\ \E resource \in ResourceVariants :
          jsonContent' = [jsonContent EXCEPT !.value.resources = Append(@, resource)]
    /\ UNCHANGED <<policy, parentPolicy, processedGroups, pc, ruleAnalysis, report>>

AddRawCollection ==
    /\ Composing
    /\ TemplateNodes < MaxTemplateNodes
    /\ LastIsGroup
    /\ \E collection \in CollectionVariants :
          jsonContent' = [jsonContent EXCEPT
              !.value.resources[Len(TemplateResources)].properties.ruleCollections =
                  Append(@, collection)]
    /\ UNCHANGED <<policy, parentPolicy, processedGroups, pc, ruleAnalysis, report>>

AddRawRule ==
    /\ Composing
    /\ TemplateNodes < MaxTemplateNodes
    /\ LastIsGroup
    /\ Len(LastResource.properties.ruleCollections) > 0
    /\ \E ruleType \in RuleType \cup {UnknownRuleType} :
          LET last == Len(LastResource.properties.ruleCollections)
              rules == LastResource.properties.ruleCollections[last].rules
          IN jsonContent' = [jsonContent EXCEPT
                 !.value.resources[Len(TemplateResources)].properties.ruleCollections[last].rules =
                     Append(@, [name |-> "Rule" \o ToString(Len(rules) + 1),
                                ruleType |-> ruleType])]
    /\ UNCHANGED <<policy, parentPolicy, processedGroups, pc, ruleAnalysis, report>>

\* A file whose text is cut or damaged: JSON.parse rejects it.
DamageText ==
    /\ Composing
    /\ jsonContent' = [jsonContent EXCEPT !.wellFormed = FALSE]
    /\ UNCHANGED <<policy, parentPolicy, processedGroups, pc, ruleAnalysis, report>>

\* A JSON document that is no template: it has no resources array.
DropResources ==
    /\ Composing
    /\ TemplateResources = <<>>
    /\ jsonContent' = [jsonContent EXCEPT !.value = [parameters |-> Undefined]]
    /\ UNCHANGED <<policy, parentPolicy, processedGroups, pc, ruleAnalysis, report>>

\* handleFileUpload, its parsing step: the policy, or the error shown.
ParseFirewallPolicy ==
    /\ pc = "input"
    /\ LET parsed == parseFirewallPolicy(jsonContent)
       IN IF IsThrown(parsed)
          THEN pc' = "error" /\ UNCHANGED policy
          ELSE pc' = "parsed" /\ policy' = parsed
    /\ UNCHANGED <<parentPolicy, processedGroups, ruleAnalysis, jsonContent, report>>

NextParse ==
    \/ AddPolicyResource
    \/ AddResource
    \/ AddRawCollection
    \/ AddRawRule
    \/ DamageText
    \/ DropResources
    \/ ParseFirewallPolicy

SpecParse == Init /\ [][NextParse]_vars

(***************************************************************************)
(* Properties of the ordering engine                                       *)
(***************************************************************************)

Processed == pc = "processed"

\* The processed rules of the output in emission order.
Rules == EmittedRules(processedGroups)

\* The flattened list, sorted by processingOrder.
AllRules == getAllRulesInProcessingOrder(processedGroups)

GroupRules(g) == RulesOfCollections(g.processedCollections)

OrdersOf(rules) == [i \in 1..Len(rules) |-> rules[i].processingOrder]

CategoriesOf(rules) == [i \in 1..Len(rules) |-> rules[i].ruleCategory]

\* The rules of an input group, over all its collections.
InputRules(g) == Flatten([i \in 1..Len(g.ruleCollections) |-> g.ruleCollections[i].rules])

InputGroups == PolicyGroups(parentPolicy) \o PolicyGroups(policy)

\* C1: in the full output, read in emission order (groups, processedCollections,
\* processedRules), the processingOrder values are strictly increasing, hence
\* unique: the counter is never reset or reused.
C1_UniqueStrictlyIncreasing ==
    Processed =>
        \A i, j \in 1..Len(Rules) :
            i < j => Rules[i].processingOrder < Rules[j].processingOrder

\* The place of a category in the fixed order DNAT, Network, Application.
CategoryRank(c) == CHOOSE k \in 1..Len(RuleCategory) : RuleCategory[k] = c

\* C2: within any single group of the output, every DNAT rule's processingOrder
\* is less than every Network rule's of that group, which is less than every
\* Application rule's of that group, whichever categories are present.
C2_CategoryPrecedence ==
    Processed =>
        \A g \in 1..Len(processedGroups) :
            LET rs == GroupRules(processedGroups[g])
            IN \A i, j \in 1..Len(rs) :
                  CategoryRank(rs[i].ruleCategory) < CategoryRank(rs[j].ruleCategory)
                  => rs[i].processingOrder < rs[j].processingOrder

\* C3: every processed rule of the parent policy has a processingOrder strictly
\* smaller than every processed rule of the child policy, so the flattened list
\* shows all parent rules before any child rule.
C3_ParentBeforeChild ==
    Processed =>
        /\ \A i, j \in 1..Len(Rules) :
              (Rules[i].isParentPolicy /\ ~Rules[j].isParentPolicy)
              => Rules[i].processingOrder < Rules[j].processingOrder
        /\ \A i, j \in 1..Len(AllRules) :
              (AllRules[i].isParentPolicy /\ ~AllRules[j].isParentPolicy) => i < j

\* C4: for two groups of the same policy with priorities p1 < p2, every rule of
\* the p1 group has a processingOrder smaller than every rule of the p2 group.
C4_GroupPriorityOrder ==
    Processed =>
        \A g, h \in 1..Len(processedGroups) :
            (/\ processedGroups[g].isParentPolicy = processedGroups[h].isParentPolicy
             /\ processedGroups[g].priority < processedGroups[h].priority)
            => \A i \in 1..Len(GroupRules(processedGroups[g])) :
                  \A j \in 1..Len(GroupRules(processedGroups[h])) :
                      GroupRules(processedGroups[g])[i].processingOrder
                          < GroupRules(processedGroups[h])[j].processingOrder

\* C5: scenario B (the complex policy) yields 5 processed rules in the order NAT,
\* Network, Network, Application, Network(deny) with processingOrder 1, 2, 3, 4, 5
\* and rulesByCategory = {DNAT: 1, Network: 3, Application: 1}.
C5_ScenarioB ==
    (Processed /\ policy = ComplexPolicy /\ parentPolicy = NoPolicy) =>
        /\ CategoriesOf(Rules) = <<"DNAT", "Network", "Network", "Application", "Network">>
        /\ Rules[5].name = "DenyAll"
        /\ OrdersOf(Rules) = <<1, 2, 3, 4, 5>>
        /\ rulesByCategory(processedGroups)
              = [c \in {"DNAT", "Network", "Application"} |->
                    IF c = "Network" THEN 3 ELSE 1]

\* C6: the processingOrder values of the output, sorted ascending, are exactly
\* 1, 2, ..., N, and validateProcessingOrder reports no processing_gap.
C6_Contiguous ==
    Processed =>
        /\ OrdersOf(AllRules) = [i \in 1..Len(AllRules) |-> i]
        /\ ProcessingGaps(processedGroups) = {}

\* Some rule of the input has a kind that is none of the three known kinds.
HasUnknownRule ==
    \E g \in 1..Len(InputGroups) :
        \E i \in 1..Len(InputRules(InputGroups[g])) :
            InputRules(InputGroups[g])[i].ruleType \notin RuleType

\* C7: when a collection holds a rule of an unknown kind, processFirewallPolicy
\* fails with an error: it never returns a result that skips the rule.
C7_UnknownKindFails == HasUnknownRule => ~Processed

\* The sort key of the i-th group of the combined list (parent groups in
\* declaration order, then child groups in declaration order).
InputIsParent(i) == i <= Len(PolicyGroups(parentPolicy))

KeyLess(i, j) ==
    \/ InputIsParent(i) /\ ~InputIsParent(j)
    \/ /\ InputIsParent(i) = InputIsParent(j)
       /\ InputGroups[i].priority < InputGroups[j].priority

KeyEqual(i, j) ==
    /\ InputIsParent(i) = InputIsParent(j)
    /\ InputGroups[i].priority = InputGroups[j].priority

\* The place of the i-th group of the combined list in a stable ascending sort.
StableRank(i) ==
    1 + Cardinality({j \in 1..Len(InputGroups) :
                        KeyLess(j, i) \/ (KeyEqual(j, i) /\ j < i)})

\* C8: the processed groups are the combined list (parent groups, then child
\* groups) stably sorted by (isParent ? 0 : 1, priority): parents before
\* children, ascending priority within a tier, equal keys in their original
\* order, every input group exactly once.
C8_GroupsStablySorted ==
    Processed =>
        /\ Len(processedGroups) = Len(InputGroups)
        /\ LET input == InputGroups
           IN \A i \in 1..Len(input) :
                 LET out == processedGroups[StableRank(i)]
                 IN /\ out.name = input[i].name
                    /\ out.priority = input[i].priority
                    /\ out.ruleCollections = input[i].ruleCollections
                    /\ out.isParentPolicy = InputIsParent(i)
        /\ \A k, l \in 1..Len(processedGroups) :
              k < l =>
                  /\ processedGroups[k].isParentPolicy \/ ~processedGroups[l].isParentPolicy
                  /\ processedGroups[k].isParentPolicy = processedGroups[l].isParentPolicy
                        => processedGroups[k].priority <= processedGroups[l].priority

\* A parent group of numerically larger priority than the child groups, and two
\* child groups of equal priority, have been processed.
C8_Witness ==
    /\ Processed
    /\ \E i, j, k \in 1..Len(InputGroups) :
          /\ InputIsParent(i) /\ ~InputIsParent(j) /\ ~InputIsParent(k)
          /\ j < k
          /\ KeyEqual(j, k)
          /\ InputGroups[i].priority > InputGroups[j].priority

\* The policy has exactly one group, holding exactly one rule, of a known kind.
OneGroupOneRule(p) ==
    /\ p # NoPolicy
    /\ Len(PolicyGroups(p)) = 1
    /\ Len(InputRules(PolicyGroups(p)[1])) = 1
    /\ InputRules(PolicyGroups(p)[1])[1].ruleType \in RuleType

\* C9: with a parent and a child policy of one group and one rule each, the
\* output has two rules, the parent rule first in the flattened list, and the
\* parent rule's processingOrder is at most the child rule's, whatever the two
\* group priorities.
C9_ParentPrecedence ==
    (Processed /\ OneGroupOneRule(parentPolicy) /\ OneGroupOneRule(policy)) =>
        /\ Len(AllRules) = 2
        /\ AllRules[1].isParentPolicy
        /\ ~AllRules[2].isParentPolicy
        /\ AllRules[1].processingOrder <= AllRules[2].processingOrder

\* Such a pair has been processed, the parent group's priority the larger number.
C9_Witness ==
    /\ Processed
    /\ OneGroupOneRule(parentPolicy)
    /\ OneGroupOneRule(policy)
    /\ PolicyGroups(parentPolicy)[1].priority > PolicyGroups(policy)[1].priority

\* Scenario A: no parent, one group, one collection, a single Network rule.
SingleNetworkRule ==
    /\ parentPolicy = NoPolicy
    /\ Len(PolicyGroups(policy)) = 1
    /\ Len(PolicyGroups(policy)[1].ruleCollections) = 1
    /\ Len(PolicyGroups(policy)[1].ruleCollections[1].rules) = 1
    /\ PolicyGroups(policy)[1].ruleCollections[1].rules[1].ruleType = "NetworkRule"

\* C10: when the output holds a rule, its smallest processingOrder is 1 and the
\* first rule of the flattened list has processingOrder 1; a single Network rule
\* yields exactly one processed rule, of processingOrder 1 and category Network.
C10_StartsAtOne ==
    (Processed /\ Len(Rules) > 0) =>
        /\ \A i \in 1..Len(Rules) : Rules[i].processingOrder >= 1
        /\ \E i \in 1..Len(Rules) : Rules[i].processingOrder = 1
        /\ AllRules[1].processingOrder = 1
        /\ SingleNetworkRule =>
              /\ Len(Rules) = 1
              /\ Rules[1].processingOrder = 1
              /\ Rules[1].ruleCategory = "Network"

\* The first group of the output has no rule and a later one has rules, none
\* of them a DNAT rule.
C10_Witness ==
    /\ Processed
    /\ Len(processedGroups) >= 2
    /\ GroupRules(processedGroups[1]) = <<>>
    /\ Len(Rules) > 0
    /\ \A i \in 1..Len(Rules) : Rules[i].ruleCategory # "DNAT"

\* The processed group made from the i-th group of the combined input list.
OutputOf(i) == processedGroups[StableRank(i)]

\* The processed collections of group that carry the name and the category.
ProcessedCollectionsOf(group, name, category) ==
    SelectSeq(group.processedCollections,
              LAMBDA c : c.name = name /\ c.ruleCategory = category)

\* The kind of rule a category is made of.
KindOf(category) ==
    IF category = "DNAT" THEN "NatRule"
    ELSE IF category = "Network" THEN "NetworkRule" ELSE "ApplicationRule"

Categories == {"DNAT", "Network", "Application"}

C12_RulesMappedOneToOne ==
    Processed =>
        LET input == InputGroups
        IN \A i \in 1..Len(input) :
            LET group == input[i]
                out == OutputOf(i)
            IN /\ Len(GroupRules(out)) = Len(InputRules(group))
               /\ \A k \in 1..Len(group.ruleCollections) :
                     \A cat \in Categories :
                         LET collection == group.ruleCollections[k]
                             expected == SelectSeq(collection.rules,
                                             LAMBDA r : r.ruleType = KindOf(cat))
                             found == ProcessedCollectionsOf(out, collection.name, cat)
                         IN IF expected = <<>> THEN found = <<>>
                            ELSE /\ Len(found) = 1
                                 /\ Len(found[1].processedRules) = Len(expected)
                                 /\ \A r \in 1..Len(expected) :
                                       LET rule == found[1].processedRules[r]
                                       IN /\ rule.name = expected[r].name
                                          /\ rule.ruleType = expected[r].ruleType
                                          /\ rule.ruleCategory = cat
                                          /\ rule.collectionName = collection.name
                                          /\ rule.collectionGroupName = group.name
                                          /\ rule.groupPriority = group.priority
                                          /\ rule.collectionPriority = collection.priority
                                          /\ rule.isParentPolicy = InputIsParent(i)

\* A collection holding rules of two kinds, of a parent group, was processed.
C12_Witness ==
    /\ Processed
    /\ \E i \in 1..Len(InputGroups) :
          /\ InputIsParent(i)
          /\ \E k \in 1..Len(InputGroups[i].ruleCollections) :
                LET rs == InputGroups[i].ruleCollections[k].rules
                IN \E a, b \in 1..Len(rs) : rs[a].ruleType # rs[b].ruleType
          /\ Len(OutputOf(i).processedCollections) >= 2

(***************************************************************************)
(* Properties of the fingerprint index                                     *)
(***************************************************************************)

Analyzed == pc = "analyzed"

\* The rules the analysis was given.
AnalyzedRules == getAllRulesFlat(processedGroups)

Range(s) == {s[i] : i \in 1..Len(s)}

\* The duplicate groups a rule is a member of.
GroupsOf(rule) ==
    {g \in 1..Len(ruleAnalysis.duplicates) : rule \in Range(ruleAnalysis.duplicates[g].rules)}

InOneDuplicateGroup(a, b) == GroupsOf(a) \cap GroupsOf(b) # {}

\* C13: the duplicate groups are exactly the classes of rules with one
\* fingerprint that have 2 or more rules: a group has 2 or more rules, all with
\* the same fingerprint and the same kind; a rule is in at most one group;
\* rules with equal fingerprints are in one group; a rule whose fingerprint no
\* other rule has is in no group.
C13_DuplicateGroupsAreFingerprintClasses ==
    Analyzed =>
        /\ \A g \in 1..Len(ruleAnalysis.duplicates) :
              LET members == ruleAnalysis.duplicates[g].rules
              IN /\ Len(members) >= 2
                 /\ Cardinality(Range(members)) = Len(members)
                 /\ Range(members) \subseteq Range(AnalyzedRules)
                 /\ \A a, b \in Range(members) :
                       /\ generateRuleFingerprint(a) = generateRuleFingerprint(b)
                       /\ a.ruleType = b.ruleType
        /\ \A a \in Range(AnalyzedRules) :
              /\ Cardinality(GroupsOf(a)) <= 1
              /\ \A b \in Range(AnalyzedRules) \ {a} :
                    generateRuleFingerprint(a) = generateRuleFingerprint(b)
                        => InOneDuplicateGroup(a, b)
              /\ (\A b \in Range(AnalyzedRules) \ {a} :
                      generateRuleFingerprint(a) # generateRuleFingerprint(b))
                    => GroupsOf(a) = {}

\* Three rules were analyzed: two of one fingerprint, and a third of another
\* kind with the same lists, which is in no group.
C13_Witness ==
    /\ Analyzed
    /\ Len(ruleAnalysis.duplicates) = 1
    /\ \E a, b \in Range(AnalyzedRules) :
          /\ GroupsOf(a) = {}
          /\ GroupsOf(b) # {}
          /\ a.ruleType # b.ruleType
          /\ generateRuleFingerprint(a).sourceAddresses = generateRuleFingerprint(b).sourceAddresses
          /\ generateRuleFingerprint(a).destinationAddresses = generateRuleFingerprint(b).destinationAddresses
          /\ generateRuleFingerprint(a).destinationPorts = generateRuleFingerprint(b).destinationPorts
          /\ generateRuleFingerprint(a).ipProtocols = generateRuleFingerprint(b).ipProtocols
          /\ generateRuleFingerprint(a).targetFqdns = generateRuleFingerprint(b).targetFqdns

\* C14: a duplicate group has type exact_duplicate if and only if all of its
\* members have one name and one collectionName; otherwise its type is
\* similar_rules.
C14_ExactDuplicateIffSameNameAndCollection ==
    Analyzed =>
        \A g \in 1..Len(ruleAnalysis.duplicates) :
            LET group == ruleAnalysis.duplicates[g]
                sameNames == \A a, b \in Range(group.rules) :
                                a.name = b.name /\ a.collectionName = b.collectionName
            IN /\ group.type \in {"exact_duplicate", "similar_rules"}
               /\ group.type = "exact_duplicate" <=> sameNames

\* A group of rules with one name, declared in collections of different
\* names, was returned as similar_rules.
C14_Witness ==
    /\ Analyzed
    /\ \E g \in 1..Len(ruleAnalysis.duplicates) :
          LET group == ruleAnalysis.duplicates[g]
          IN /\ group.type = "similar_rules"
             /\ \A a, b \in Range(group.rules) : a.name = b.name
             /\ \E a, b \in Range(group.rules) : a.collectionName # b.collectionName

\* The lists of a rule the normalization is about.
TrafficLists ==
    {"sourceAddresses", "destinationAddresses", "destinationPorts", "ipProtocols",
     "targetFqdns", "destinationFqdns"}

\* The element without its leading and trailing whitespace and, unless the
\* letter case counts, in lower case.
Canonical(element, caseCounts) ==
    IF caseCounts THEN trim(element) ELSE trim(toLowerCase(element))

\* How often the value is among the canonical elements of the list.
Occurrences(list, value, caseCounts) ==
    Cardinality({i \in 1..Len(list) : Canonical(list[i], caseCounts) = value})

\* The lists have the same canonical elements as often, in any order.
SameUpTo(x, y, caseCounts) ==
    /\ Len(x) = Len(y)
    /\ \A i \in 1..Len(x) :
          Occurrences(x, Canonical(x[i], caseCounts), caseCounts)
              = Occurrences(y, Canonical(x[i], caseCounts), caseCounts)

\* Every list of the two rules differs at most in order, letter case and
\* leading or trailing whitespace of its elements.
DifferInNormalizationOnly(a, b) ==
    \A f \in TrafficLists : SameUpTo(OrEmpty(a, f), OrEmpty(b, f), FALSE)

\* The same, with the letter case of ports told apart.
DifferInNormalizationOnlyPortsByCase(a, b) ==
    \A f \in TrafficLists :
        SameUpTo(OrEmpty(a, f), OrEmpty(b, f), f = "destinationPorts")

AgreeButDestinationFqdns(a, b) ==
    \A f \in TrafficLists \ {"destinationFqdns"} : OrEmpty(a, f) = OrEmpty(b, f)

\* C16: the destination FQDNs of a rule are part of its fingerprint: two
\* Network rules that agree on every other traffic field and carry different
\* destinationFqdns have different fingerprints and share no duplicate group.
C16_DestinationFqdnsInFingerprint ==
    Analyzed =>
        \A a, b \in Range(AnalyzedRules) :
            (/\ a.ruleType = "NetworkRule" /\ b.ruleType = "NetworkRule"
             /\ AgreeButDestinationFqdns(a, b)
             /\ ~SameUpTo(OrEmpty(a, "destinationFqdns"), OrEmpty(b, "destinationFqdns"),
                          FALSE))
                => /\ generateRuleFingerprint(a) # generateRuleFingerprint(b)
                   /\ ~InOneDuplicateGroup(a, b)

(***************************************************************************)
(* Properties of the conflict detector                                     *)
(***************************************************************************)

\* The two normalized lists of a dimension overlap: one is empty (any), or
\* they share an element.
DimensionOverlaps(x, y) == x = <<>> \/ y = <<>> \/ Range(x) \cap Range(y) # {}

\* The two rules are traffic-overlapping: the four dimensions overlap.
TrafficOverlapping(a, b) ==
    LET fa == generateRuleFingerprint(a)
        fb == generateRuleFingerprint(b)
    IN /\ DimensionOverlaps(fa.sourceAddresses, fb.sourceAddresses)
       /\ DimensionOverlaps(fa.destinationAddresses \o fa.targetFqdns,
                            fb.destinationAddresses \o fb.targetFqdns)
       /\ DimensionOverlaps(fa.destinationPorts, fb.destinationPorts)
       /\ DimensionOverlaps(fa.ipProtocols, fb.ipProtocols)

\* The conflicts reported for the pair of rules.
ConflictsOn(a, b) ==
    {n \in 1..Len(ruleAnalysis.conflicts) :
        {ruleAnalysis.conflicts[n].rules.primary,
         ruleAnalysis.conflicts[n].rules.conflicting} = {a, b}}

\* The action inferred for a rule: Deny if its name or its collection's name
\* contains "deny" or "block" in any letter case.
InferredAction(rule) ==
    IF \E text \in {rule.name, rule.collectionName} :
          \E word \in {"deny", "block"} : includes(toLowerCase(text), word)
    THEN "Deny" ELSE "Allow"

\* C17: for a traffic-overlapping pair of Network rules or of Application
\* rules an allow_deny_conflict of severity high is reported exactly when the
\* inferred actions of the two rules differ; for a pair of NAT rules no
\* allow_deny_conflict is reported.
C17_AllowDenyIffActionsDiffer ==
    Analyzed =>
        \A a, b \in Range(AnalyzedRules) :
            (a # b /\ a.ruleType = b.ruleType /\ TrafficOverlapping(a, b)) =>
                LET reported == {ruleAnalysis.conflicts[n] : n \in ConflictsOn(a, b)}
                    allowDeny == {c \in reported : c.conflictType = "allow_deny_conflict"}
                IN /\ \A c \in allowDeny : c.severity = "high"
                   /\ IF a.ruleType \in {"NetworkRule", "ApplicationRule"}
                      THEN allowDeny # {} <=> InferredAction(a) # InferredAction(b)
                      ELSE allowDeny = {}

\* An allow_deny_conflict was reported for two rules of one name, one of
\* them declared in the collection DENY.
C17_Witness ==
    /\ Analyzed
    /\ \E n \in 1..Len(ruleAnalysis.conflicts) :
          LET c == ruleAnalysis.conflicts[n]
          IN /\ c.conflictType = "allow_deny_conflict"
             /\ c.severity = "high"
             /\ c.rules.primary.name = c.rules.conflicting.name
             /\ "DENY" \in {c.rules.primary.collectionName, c.rules.conflicting.collectionName}

\* C18: a conflict that is not an allow_deny_conflict is a priority_conflict
\* of severity medium exactly when the fingerprints of its two rules are
\* equal, list by list and element by element, and the processingOrder of
\* the earlier rule is strictly smaller; else it is overlapping_rules of
\* severity low.
C18_PriorityConflictIffEqualFingerprints ==
    Analyzed =>
        \A n \in 1..Len(ruleAnalysis.conflicts) :
            LET c == ruleAnalysis.conflicts[n]
                shadowed ==
                    /\ generateRuleFingerprint(c.rules.primary)
                          = generateRuleFingerprint(c.rules.conflicting)
                    /\ c.rules.primary.processingOrder < c.rules.conflicting.processingOrder
            IN c.conflictType # "allow_deny_conflict" =>
                  IF shadowed
                  THEN c.conflictType = "priority_conflict" /\ c.severity = "medium"
                  ELSE c.conflictType = "overlapping_rules" /\ c.severity = "low"

Disjoint(x, y) == x # <<>> /\ y # <<>> /\ Range(x) \cap Range(y) = {}

ProtocolTypes(rule) ==
    {OrEmpty(rule, "protocols")[i].protocolType : i \in 1..Len(OrEmpty(rule, "protocols"))}

\* C20: for two Application rules the fourth dimension is their protocol
\* types: no conflict is reported for two Application rules whose protocol
\* types are non-empty on both sides and disjoint.
C20_ApplicationProtocolTypesOverlap ==
    Analyzed =>
        \A a, b \in Range(AnalyzedRules) :
            (/\ a # b
             /\ a.ruleType = "ApplicationRule" /\ b.ruleType = "ApplicationRule"
             /\ ProtocolTypes(a) # {} /\ ProtocolTypes(b) # {}
             /\ ProtocolTypes(a) \cap ProtocolTypes(b) = {})
                => ConflictsOn(a, b) = {}

\* C21: every conflict relates two distinct analyzed rules of one kind, no
\* two conflicts relate the same pair, and the primary rule's processingOrder
\* is at most the conflicting rule's, whatever the order of the rule list.
C21_ConflictPairsOrdered ==
    Analyzed =>
        /\ \A n \in 1..Len(ruleAnalysis.conflicts) :
              LET c == ruleAnalysis.conflicts[n]
              IN /\ c.rules.primary # c.rules.conflicting
                 /\ {c.rules.primary, c.rules.conflicting} \subseteq Range(AnalyzedRules)
                 /\ c.rules.primary.ruleType = c.rules.conflicting.ruleType
                 /\ c.rules.primary.processingOrder <= c.rules.conflicting.processingOrder
        /\ \A a, b \in Range(AnalyzedRules) : Cardinality(ConflictsOn(a, b)) <= 1

\* A conflict was reported whose primary rule comes after its conflicting
\* rule in the list the analysis was given.
C21_Witness ==
    /\ Analyzed
    /\ \E n \in 1..Len(ruleAnalysis.conflicts) :
          \E i, j \in 1..Len(AnalyzedRules) :
              /\ i < j
              /\ AnalyzedRules[i] = ruleAnalysis.conflicts[n].rules.conflicting
              /\ AnalyzedRules[j] = ruleAnalysis.conflicts[n].rules.primary
              /\ AnalyzedRules[j].processingOrder < AnalyzedRules[i].processingOrder

(***************************************************************************)
(* Properties of the query helpers                                         *)
(***************************************************************************)

\* The duplicate_priority warnings about the processed groups.
DuplicatePriorities == SelectSeq(report.warnings, LAMBDA w : w.type = "duplicate_priority")

Inspected == pc = "inspected"

\* C22: validateProcessingOrder gives exactly one duplicate_priority warning
\* for every priority that two or more groups, of the parent or of the child,
\* share, and none for a priority of one group only.
C22_DuplicatePriorityWarnings ==
    Inspected =>
        LET warnings == DuplicatePriorities
            groups == InputGroups
        IN /\ \A i \in 1..Len(warnings) :
                 Cardinality({g \in 1..Len(groups) :
                                 groups[g].priority = warnings[i].priority}) >= 2
           /\ \A g \in 1..Len(groups) :
                 Cardinality({i \in 1..Len(warnings) :
                                 warnings[i].priority = groups[g].priority})
                     = IF Cardinality({h \in 1..Len(groups) :
                                          groups[h].priority = groups[g].priority}) >= 2
                       THEN 1 ELSE 0

\* A parent group and a child group share a priority and a third group has
\* a priority of its own: one warning.
C22_Witness ==
    /\ Inspected
    /\ Len(DuplicatePriorities) = 1
    /\ \E i, j, k \in 1..Len(InputGroups) :
          /\ InputIsParent(i) /\ ~InputIsParent(j)
          /\ InputGroups[i].priority = InputGroups[j].priority
          /\ InputGroups[k].priority # InputGroups[i].priority

\* C23: the lookup by id is exact: for every processed rule r of the output,
\* findRuleById(output, r.id) is r itself, and for an id of no rule it is null.
C23_FindRuleByIdExact ==
    Processed =>
        /\ \A i \in 1..Len(Rules) : findRuleById(processedGroups, Rules[i].id) = Rules[i]
        /\ findRuleById(processedGroups, "non-existent-id") = NoRule

Parsed == pc = "parsed"

ParseFailed == pc = "error"

\* The resources of the text, none if it has no resources array.
RawResources ==
    IF "resources" \in DOMAIN jsonContent.value THEN jsonContent.value.resources ELSE <<>>

RawGroups == FilterGroupResources(RawResources)

RawCollections ==
    Flatten([g \in 1..Len(RawGroups) |-> RawGroups[g].properties.ruleCollections])

RawRules == Flatten([c \in 1..Len(RawCollections) |-> RawCollections[c].rules])

NonEmptyName(name) == name.type = "string" /\ name.value # ""

NumericInRange(priority) == priority.type = "number" /\ priority.value \in 100..65000

\* C25: parseFirewallPolicy ends in an error or returns a complete valid
\* policy: a returned policy has a non-empty name, at least one group, every
\* group and collection with a non-empty name and a numeric priority within
\* 100..65000, and rules of the three kinds only; and text that is not JSON, a
\* template without a firewallPolicies resource, a policy without groups, a
\* priority out of range and a rule of an unknown kind each end in an error.
C25_ParseErrorsOrValidPolicy ==
    /\ Parsed =>
          /\ NonEmptyName(policy.name)
          /\ Len(policy.ruleCollectionGroups) >= 1
          /\ \A g \in 1..Len(policy.ruleCollectionGroups) :
                LET group == policy.ruleCollectionGroups[g]
                IN /\ group.name # ""
                   /\ NumericInRange(group.priority)
                   /\ \A c \in 1..Len(group.ruleCollections) :
                         /\ NonEmptyName(group.ruleCollections[c].name)
                         /\ NumericInRange(group.ruleCollections[c].priority)
                         /\ \A r \in 1..Len(group.ruleCollections[c].rules) :
                               group.ruleCollections[c].rules[r].ruleType \in RuleType
    /\ (Parsed \/ ParseFailed) =>
          /\ ~jsonContent.wellFormed => ParseFailed
          /\ (\A i \in 1..Len(RawResources) : ~isFirewallPolicyResource(RawResources[i]))
                => ParseFailed
          /\ RawGroups = <<>> => ParseFailed
          /\ (\E g \in 1..Len(RawGroups) : ~NumericInRange(RawGroups[g].properties.priority))
                => ParseFailed
          /\ (\E c \in 1..Len(RawCollections) : ~NumericInRange(RawCollections[c].priority))
                => ParseFailed
          /\ (\E r \in 1..Len(RawRules) : RawRules[r].ruleType \notin RuleType)
                => ParseFailed

\* A policy was returned: its name came from the parameters of the template
\* and a group of it has a collection with a rule.
C25_Witness ==
    /\ Parsed
    /\ policy.name = StringValue("fw-prod")
    /\ \E g \in 1..Len(policy.ruleCollectionGroups) :
          \E c \in 1..Len(policy.ruleCollectionGroups[g].ruleCollections) :
              Len(policy.ruleCollectionGroups[g].ruleCollections[c].rules) >= 1

(***************************************************************************)
(* Properties of the order inside a group                                  *)
(***************************************************************************)

\* The processed collections of a category of a processed group.
CollectionsOfCategory(out, cat) ==
    SelectSeq(out.processedCollections, LAMBDA c : c.ruleCategory = cat)

\* The declared collections of the group that hold a rule of the category.
DeclaredWith(out, cat) ==
    SelectSeq(out.ruleCollections,
              LAMBDA c : \E r \in 1..Len(c.rules) : c.rules[r].ruleType = KindOf(cat))

\* The place of the i-th declared collection when the collections are put in
\* ascending priority, equal priorities in declaration order.
PlaceOf(declared, i) ==
    1 + Cardinality({j \in 1..Len(declared) :
                        \/ declared[j].priority < declared[i].priority
                        \/ (declared[j].priority = declared[i].priority /\ j < i)})

NamesOf(rules) == [r \in 1..Len(rules) |-> rules[r].name]

\* C26: within one group and category the processed collections are in
\* ascending collection priority, collections of equal priority in declaration
\* order; the rules of a collection keep their declaration order; and the
\* processingOrder of consecutive rules of the group and category grows by 1.
C26_OrderInsideGroupAndCategory ==
    Processed =>
        \A g \in 1..Len(processedGroups) :
            \A cat \in Categories :
                LET found == CollectionsOfCategory(processedGroups[g], cat)
                    declared == DeclaredWith(processedGroups[g], cat)
                    rules == RulesOfCollections(found)
                IN /\ Len(found) = Len(declared)
                   /\ \A i \in 1..Len(declared) :
                         LET c == found[PlaceOf(declared, i)]
                         IN /\ c.name = declared[i].name
                            /\ c.priority = declared[i].priority
                            /\ NamesOf(c.processedRules)
                                 = NamesOf(SelectSeq(declared[i].rules,
                                               LAMBDA r : r.ruleType = KindOf(cat)))
                   /\ \A r \in 1..(Len(rules) - 1) :
                         rules[r + 1].processingOrder = rules[r].processingOrder + 1

\* A group with two collections of one category and of equal priority, one of
\* them with two rules of the category.
C26_Witness ==
    /\ Processed
    /\ \E g \in 1..Len(processedGroups) :
          \E cat \in Categories :
              LET found == CollectionsOfCategory(processedGroups[g], cat)
              IN /\ Len(found) >= 2
                 /\ found[1].priority = found[2].priority
                 /\ Len(RulesOfCollections(found)) >= 3

(***************************************************************************)
(* Properties of the statistics                                            *)
(***************************************************************************)

Statistics == report.processingStats

\* C27: the statistics of the processed policy agree with the summary of the
\* unprocessed policy: the same totalRules and the same count per category;
\* totalRules is the sum of the three category counts and the length of the
\* flattened list; parentPolicyGroups + childPolicyGroups is totalGroups.
C27_StatisticsAgreeWithSummary ==
    Inspected =>
        LET stats == Statistics
            summary == report.summary
        IN /\ parentPolicy = NoPolicy =>
                 /\ stats.totalRules = summary.totalRules
                 /\ \A cat \in Categories :
                       stats.rulesByCategory[cat] = summary.rulesByType[cat]
           /\ stats.totalRules
                 = stats.rulesByCategory.DNAT + stats.rulesByCategory.Network
                   + stats.rulesByCategory.Application
           /\ stats.totalRules = Len(AllRules)
           /\ stats.parentPolicyGroups + stats.childPolicyGroups = stats.totalGroups

\* A policy without parent, processed, with three rules or more, of two kinds
\* in one collection, so that there are more processed than declared
\* collections.
C27_Witness ==
    /\ Inspected
    /\ parentPolicy = NoPolicy
    /\ Statistics.totalRules >= 3
    /\ Statistics.totalCollections > report.summary.totalRuleCollections
    /\ Cardinality({cat \in Categories : Statistics.rulesByCategory[cat] > 0}) >= 2

(***************************************************************************)
(* Properties of the analysis of a processed policy                        *)
(***************************************************************************)

\* C28: two rules of one kind in different groups, with equal fingerprints and
\* the same inferred action, are reported as a priority_conflict whose
\* conflicting rule is the rule of the group evaluated later, and never as
\* overlapping_rules.
C28_ShadowingAcrossGroups ==
    Analyzed =>
        \A g, h \in 1..Len(processedGroups) :
            g < h =>
                \A a \in Range(GroupRules(processedGroups[g])) :
                    \A b \in Range(GroupRules(processedGroups[h])) :
                        (/\ a.ruleType = b.ruleType
                         /\ generateRuleFingerprint(a) = generateRuleFingerprint(b)
                         /\ InferredAction(a) = InferredAction(b)) =>
                            /\ \E n \in ConflictsOn(a, b) :
                                  /\ ruleAnalysis.conflicts[n].conflictType = "priority_conflict"
                                  /\ ruleAnalysis.conflicts[n].rules.primary = a
                                  /\ ruleAnalysis.conflicts[n].rules.conflicting = b
                            /\ \A n \in ConflictsOn(a, b) :
                                  ruleAnalysis.conflicts[n].conflictType # "overlapping_rules"

\* C29: every two distinct rules of one duplicate group are reported by
\* findRuleConflicts as one conflict pair: no duplicate pair is missing from
\* the conflict list, lists that are empty on both sides included.
C29_DuplicatePairsAreConflicts ==
    Analyzed =>
        \A d \in 1..Len(ruleAnalysis.duplicates) :
            \A i, j \in 1..Len(ruleAnalysis.duplicates[d].rules) :
                i < j =>
                    Cardinality(ConflictsOn(ruleAnalysis.duplicates[d].rules[i],
                                            ruleAnalysis.duplicates[d].rules[j])) = 1

\* A duplicate group of three rules whose fingerprint has an empty list.
C29_Witness ==
    /\ Analyzed
    /\ \E d \in 1..Len(ruleAnalysis.duplicates) :
          /\ Len(ruleAnalysis.duplicates[d].rules) = 3
          /\ generateRuleFingerprint(ruleAnalysis.duplicates[d].rules[1]).destinationPorts = <<>>

\* The places, in the list of processed rules, of the rules a conflict names.
RulesInConflict ==
    {i \in 1..Len(AnalyzedRules) :
        \E n \in 1..Len(ruleAnalysis.conflicts) :
            AnalyzedRules[i] \in {ruleAnalysis.conflicts[n].rules.primary,
                                  ruleAnalysis.conflicts[n].rules.conflicting}}

\* C30: in the analysis of a processed policy, statistics.conflictingRules is
\* the number of distinct processed rules that are the primary or the
\* conflicting member of a reported conflict, statistics.conflicts is the
\* number of conflict records and statistics.totalRules the number of
\* processed rules.
C30_StatisticsCountRules ==
    Analyzed =>
        /\ ruleAnalysis.statistics.conflictingRules = Cardinality(RulesInConflict)
        /\ ruleAnalysis.statistics.conflicts = Len(ruleAnalysis.conflicts)
        /\ ruleAnalysis.statistics.totalRules = Len(AnalyzedRules)

====
